---- MODULE Spec2Model ----
(***************************************************************************)
(* A model of the vulpini forward proxy: the upstream node pool            *)
(* (ip_manager), the SOCKS5 and HTTP handlers (protocol/socks5.rs,         *)
(* protocol/http.rs), the listeners' connection semaphore, the lock scopes  *)
(* of the tasks that share the components, the anomaly detector, the       *)
(* behavior monitor, the traffic analyzer, the process (main.rs) and the  *)
(* management API (api/mod.rs).                                            *)
(*                                                                         *)
(* Every component has its own specification; a specification holds the    *)
(* variables of the other components at "off".                             *)
(***************************************************************************)
EXTENDS Integers, Sequences, FiniteSets, TLC

VARIABLES
    \* ---- IPManager (ip_manager/mod.rs:96-102)
    ip_pool,        \* Vec<Arc<IPInfo>>: sequence of [address, port]
    ip_stats,       \* DashMap<String, IPStats>: address -> [total_uses, total_failures]
    node_states,    \* DashMap<String, NodeState>: address -> NodeState
    current_index,  \* Mutex<usize>, 0-based as in the code
    strategy,       \* config.strategy
    last_call,      \* the last call on the IPManager: [op, arg, ret]
    \* ---- one SOCKS5 client task (protocol/socks5.rs:157-373)
    s5_config,      \* Socks5Config: [auth_enabled, username, password]
    s5,             \* the task: where it is suspended, what it read and wrote
    \* ---- one HTTP proxy client task (protocol/http.rs:221-400)
    http_config,    \* HttpProxyConfig: [auth_enabled, username, password]
    http,           \* the task: where it is suspended, what it read and wrote
    \* ---- the accept loops (socks5.rs:50-101, http.rs:36-87)
    listeners,      \* per protocol: max_connections, free permits, client tasks
    \* ---- the tasks and the component mutexes they share
    lock_tasks,     \* per task: the step it is at and the guards it holds
    mutex_owner,    \* per component mutex: the task that holds it, or None
    \* ---- the clock the components below read (Instant::now()), in seconds
    now,
    \* ---- AnomalyDetector (anomaly_detector/mod.rs:40-48)
    detector,       \* [config, the three series, last_alert, event_history]
    detect_calls,   \* the detect calls made: time, input, baseline, events
    \* ---- BehaviorMonitor (behavior_monitor/mod.rs)
    monitor,
    callers,        \* the threads inside a call on the monitor: step and locals
    \* ---- TrafficAnalyzer (traffic_analyzer/mod.rs)
    analyzer,
    \* ---- the process (main.rs:78-225)
    proc,
    \* ---- the API server (api/mod.rs:57-64)
    api,            \* the request handled last and the response to it
    \* ---- SmartRouter (smart_router/mod.rs:54-58)
    router          \* [config, targets, current_index] and the call made last

poolVars == <<ip_pool, ip_stats, node_states, current_index, strategy, last_call>>
s5Vars == <<s5_config, s5>>
httpVars == <<http_config, http>>
accVars == <<listeners>>
lockVars == <<lock_tasks, mutex_owner>>
proxyVars == <<poolVars, s5Vars, httpVars, accVars, lockVars>>
anomalyVars == <<detector, detect_calls>>
monitorVars == <<monitor, callers>>
serviceVars == <<now, anomalyVars, monitorVars, analyzer, proc, api, router>>

vars == <<proxyVars, serviceVars>>

\* what the steps of one component leave alone
beyondPool == <<s5Vars, httpVars, accVars, lockVars, serviceVars>>
beyondS5 == <<s5_config, poolVars, httpVars, accVars, lockVars, serviceVars>>
beyondHttp == <<http_config, poolVars, s5Vars, accVars, lockVars, serviceVars>>
beyondAcc == <<poolVars, s5Vars, httpVars, lockVars, serviceVars>>
beyondLocks == <<poolVars, s5Vars, httpVars, accVars, serviceVars>>
beyondAnomaly == <<proxyVars, monitorVars, analyzer, proc, api, router>>
beyondMonitor == <<proxyVars, anomalyVars, analyzer, proc, api, router>>
beyondAnalyzer == <<proxyVars, anomalyVars, monitorVars, proc, api, router>>
beyondProc == <<proxyVars, now, anomalyVars, monitorVars, analyzer, api, router>>
beyondApi == <<current_index, strategy, s5Vars, httpVars, accVars, lockVars,
               now, anomalyVars, monitorVars, analyzer, proc, router>>
beyondRouter == <<proxyVars, now, anomalyVars, monitorVars, analyzer, proc, api>>

\* a component that takes no part in a specification
S5Off == s5_config = "off" /\ s5 = [pc |-> "off"]
HttpOff == http_config = "off" /\ http = [pc |-> "off"]
AccOff == listeners = "off"
LocksOff == lock_tasks = "off" /\ mutex_owner = "off"
ClockOff == now = 0
AnomalyOff == detector = "off" /\ detect_calls = "off"
MonitorOff == monitor = "off" /\ callers = "off"
AnalyzerOff == analyzer = "off"
ProcOff == proc = "off"
ApiOff == api = "off"
RouterOff == router = "off"
ServicesOff ==
    /\ ClockOff /\ AnomalyOff /\ MonitorOff /\ AnalyzerOff /\ ProcOff /\ ApiOff /\ RouterOff
    /\ RouterOff

\* record_result calls counted by the IPStats entries of the pool at one time
MaxSamples == 3
\* the same, in the specification of record_result alone (SpecHealth)
MaxObservations == 10
\* entries of config.ips at construction
MaxConfigIps == 2
\* sockets one listener accepts
MaxSockets == 3
\* the largest max_connections a listener is configured with
MaxConnections == 2
\* detect calls made on one AnomalyDetector
MaxDetects == 3
\* samples of the request-rate baseline the detector starts with
MaxBaseline == 7
\* record_action and cleanup_stale_sessions calls made on one BehaviorMonitor
MaxMonitorCalls == 3
\* records a session holds when the calls begin
MaxPreloaded == 999
\* record_request and record_bytes calls made on one TrafficAnalyzer
MaxRecords == 3
\* requests the window holds when the calls begin
MaxWindowed == 99

\* Option<T>: None is the empty sequence, Some(x) the one-element sequence
None == <<>>
Some(x) == <<x>>

(***************************************************************************)
(* IPManager: the upstream node pool.                                      *)
(*                                                                         *)
(* IPInfo keeps address and port; country and isp are Option<String>       *)
(* fields handled exactly like port and are left out.  IPStats.avg_latency,*)
(* IPStats.last_failure and NodeState.last_used are written by             *)
(* record_result and read by no operation of the pool, and are left out.   *)
(***************************************************************************)
Addrs == {"a1", "a2"}
\* the port a node is given; no operation of the pool reads it
Ports == {1080}
\* latencies in ms handed to record_result
Latencies == {50, 100}
Strategies == {"random", "roundrobin", "leastused", "performance", "unknown"}

IPInfo(address, port) == [address |-> address, port |-> port]

\* NodeState::new
NodeState_new ==
    [enabled |-> TRUE, health_status |-> "Unknown", use_count |-> 0,
     success_count |-> 0, failure_count |-> 0, latency |-> 100]

\* the IPStats literal of IPManager::new and add_node
IPStats_new == [total_uses |-> 0, total_failures |-> 0]

\* DashMap::insert and DashMap::remove
MapInsert(m, k, v) == [x \in DOMAIN m \cup {k} |-> IF x = k THEN v ELSE m[x]]
MapRemove(m, k) == [x \in DOMAIN m \ {k} |-> m[x]]

PoolAddresses(pool) == {pool[i].address : i \in 1..Len(pool)}

\* IPManager::new: every config entry is pushed, no duplicate check
RECURSIVE IPManager_new(_)
IPManager_new(ips) ==
    IF ips = <<>>
    THEN [ip_pool |-> <<>>, ip_stats |-> <<>>, node_states |-> <<>>]
    ELSE LET m == IPManager_new(SubSeq(ips, 1, Len(ips) - 1))
             c == ips[Len(ips)]
         IN  [ip_pool     |-> Append(m.ip_pool, IPInfo(c.address, c.port)),
              ip_stats    |-> MapInsert(m.ip_stats, c.address, IPStats_new),
              node_states |-> MapInsert(m.node_states, c.address, NodeState_new)]

\* the filter closure of the four select_* functions
is_available(ip) ==
    IF ip.address \in DOMAIN node_states
    THEN /\ node_states[ip.address].enabled
         /\ node_states[ip.address].health_status \in {"Healthy", "Degraded", "Unknown"}
    ELSE FALSE

healthy_ips == SelectSeq(ip_pool, is_available)

\* select_random: the set of nodes rand::random_range may pick
select_random ==
    IF healthy_ips = <<>>
    THEN {[ip |-> ip_pool[1], index |-> current_index]}
    ELSE {[ip |-> healthy_ips[i], index |-> current_index] : i \in 1..Len(healthy_ips)}

\* rr_probe falling back to the node at the current index
RECURSIVE rr_probe_current(_, _)
rr_probe_current(k, current) ==
    IF k = 0
    THEN [ip |-> ip_pool[(current % Len(ip_pool)) + 1], index |-> current]
    ELSE LET index == (current + 1) % Len(ip_pool)
         IN  IF is_available(ip_pool[index + 1])
             THEN [ip |-> ip_pool[index + 1], index |-> index]
             ELSE rr_probe_current(k - 1, index)

\* indices that are not reduced modulo the pool length
RECURSIVE rr_indices_no_wrap(_, _)
rr_indices_no_wrap(k, current) ==
    IF k = 0 THEN <<>>
    ELSE LET index == current + 1
         IN  IF index < Len(ip_pool) /\ is_available(ip_pool[index + 1])
             THEN <<index>>
             ELSE <<index>> \o rr_indices_no_wrap(k - 1, index)

\* the indices (0-based) the loop of select_round_robin hands to
\* self.ip_pool.get(index), in order, k probes left
RECURSIVE rr_indices(_, _)
rr_indices(k, current) ==
    IF k = 0 THEN <<>>
    ELSE LET index == (current + 1) % Len(ip_pool)
         IN  IF index < Len(ip_pool) /\ is_available(ip_pool[index + 1])
             THEN <<index>>
             ELSE <<index>> \o rr_indices(k - 1, index)

\* the loop of select_round_robin, k probes left
RECURSIVE rr_probe(_, _)
rr_probe(k, current) ==
    IF k = 0
    THEN [ip |-> ip_pool[1], index |-> current]
    ELSE LET index == (current + 1) % Len(ip_pool)
         IN  IF is_available(ip_pool[index + 1])
             THEN [ip |-> ip_pool[index + 1], index |-> index]
             ELSE rr_probe(k - 1, index)

\* a single probe
select_round_robin_one_probe == {rr_probe(1, current_index)}

select_round_robin == {rr_probe(Len(ip_pool), current_index)}

use_count_of(ip) ==
    IF ip.address \in DOMAIN node_states THEN node_states[ip.address].use_count ELSE 0

select_least_used ==
    IF healthy_ips = <<>>
    THEN {[ip |-> ip_pool[1], index |-> current_index]}
    ELSE LET h == healthy_ips
             \* Iterator::min_by_key: the first of the minimal elements
             best == CHOOSE i \in 1..Len(h) :
                         /\ \A j \in 1..Len(h) : use_count_of(h[j]) >= use_count_of(h[i])
                         /\ \A j \in 1..(i - 1) : use_count_of(h[j]) > use_count_of(h[i])
         IN  {[ip |-> h[best], index |-> current_index]}

\* the comparison closure of select_performance_based: a orders before b.
\* success_rate = success_count / (success_count + failure_count + 1) is
\* compared by cross-multiplication, exact for the f64 quotients of counters
\* this small.
perf_less(a, b) ==
    LET sa == node_states[a.address]
        sb == node_states[b.address]
        na == sa.success_count * (sb.success_count + sb.failure_count + 1)
        nb == sb.success_count * (sa.success_count + sa.failure_count + 1)
    IN  \/ na > nb
        \/ na = nb /\ sa.latency < sb.latency

select_performance_based ==
    IF healthy_ips = <<>>
    THEN {[ip |-> ip_pool[1], index |-> current_index]}
    ELSE LET h == healthy_ips
             \* Iterator::min_by: the first of the minimal elements
             best == CHOOSE i \in 1..Len(h) :
                         /\ \A j \in 1..Len(h) : ~perf_less(h[j], h[i])
                         /\ \A j \in 1..(i - 1) : perf_less(h[i], h[j])
         IN  {[ip |-> h[best], index |-> current_index]}

\* select_ip giving None when no node is available
select_ip_available_only ==
    IF ip_pool = <<>> \/ healthy_ips = <<>>
    THEN {[ret |-> None, index |-> current_index]}
    ELSE {[ret |-> Some(s.ip), index |-> s.index] : s \in select_round_robin}

\* select_ip: the possible outcomes [ret, index]
select_ip ==
    IF ip_pool = <<>>
    THEN {[ret |-> None, index |-> current_index]}
    ELSE LET selected ==
                 CASE strategy = "random"      -> select_random
                   [] strategy = "roundrobin"  -> select_round_robin
                   [] strategy = "leastused"   -> select_least_used
                   [] strategy = "performance" -> select_performance_based
                   [] OTHER                    -> select_round_robin
         IN  {[ret |-> Some(s.ip), index |-> s.index] : s \in selected}

\* add_node(req): req = [address, port]; AddIPRequest.enabled is not read by the code
add_node(req) ==
    IF \E i \in 1..Len(ip_pool) : ip_pool[i].address = req.address
    THEN [ret |-> FALSE, ip_pool |-> ip_pool, ip_stats |-> ip_stats,
          node_states |-> node_states]
    ELSE [ret         |-> TRUE,
          ip_pool     |-> Append(ip_pool, IPInfo(req.address, req.port)),
          ip_stats    |-> MapInsert(ip_stats, req.address, IPStats_new),
          node_states |-> MapInsert(node_states, req.address, NodeState_new)]

\* remove_node leaving the NodeState entry behind
remove_node_keep_state(address) ==
    LET retained == SelectSeq(ip_pool, LAMBDA ip : ip.address # address)
    IN  [ret         |-> Len(retained) < Len(ip_pool),
         ip_pool     |-> retained,
         ip_stats    |-> MapRemove(ip_stats, address),
         node_states |-> node_states]

remove_node(address) ==
    LET retained == SelectSeq(ip_pool, LAMBDA ip : ip.address # address)
    IN  [ret         |-> Len(retained) < Len(ip_pool),
         ip_pool     |-> retained,
         ip_stats    |-> MapRemove(ip_stats, address),
         node_states |-> MapRemove(node_states, address)]

\* update_node(address, req): req = [port, enabled], each an Option
update_node(address, req) ==
    IF ~\E i \in 1..Len(ip_pool) : ip_pool[i].address = address
    THEN [ret |-> FALSE, ip_pool |-> ip_pool, node_states |-> node_states]
    ELSE LET idx == CHOOSE i \in 1..Len(ip_pool) :
                        /\ ip_pool[i].address = address
                        /\ \A j \in 1..(i - 1) : ip_pool[j].address # address
         IN  [ret     |-> TRUE,
              ip_pool |-> IF req.port # None
                          THEN [ip_pool EXCEPT ![idx] = IPInfo(@.address, req.port[1])]
                          ELSE ip_pool,
              node_states |->
                  IF req.enabled # None /\ address \in DOMAIN node_states
                  THEN [node_states EXCEPT ![address].enabled = req.enabled[1]]
                  ELSE node_states]

toggle_node(address) ==
    IF address \in DOMAIN node_states
    THEN [ret         |-> Some(~node_states[address].enabled),
          node_states |-> [node_states EXCEPT ![address].enabled = ~@]]
    ELSE [ret |-> None, node_states |-> node_states]

\* the NodeState part of record_result
record_state(state, success, latency) ==
    IF success
    THEN [state EXCEPT !.success_count = @ + 1, !.use_count = @ + 1,
                       !.latency = latency]
    ELSE [state EXCEPT !.failure_count = @ + 1]

\* A record_result that creates the entries it does not find.
record_result_upsert(ip, success, latency) ==
    [ip_stats |->
         MapInsert(ip_stats, ip,
                   [total_uses |-> 1, total_failures |-> IF success THEN 0 ELSE 1]),
     node_states |->
         MapInsert(node_states, ip, record_state(NodeState_new, success, latency))]

record_result(ip, success, latency) ==
    IF ip \in DOMAIN ip_stats
    THEN [ip_stats |->
              [ip_stats EXCEPT ![ip].total_uses = @ + 1,
                               ![ip].total_failures = IF success THEN @ ELSE @ + 1],
          node_states |->
              IF ip \in DOMAIN node_states
              THEN [node_states EXCEPT ![ip] = record_state(@, success, latency)]
              ELSE node_states]
    ELSE [ip_stats |-> ip_stats, node_states |-> node_states]

Call(op, arg, ret) == [op |-> op, arg |-> arg, ret |-> ret]

RECURSIVE SumUses(_)
SumUses(S) ==
    IF S = {} THEN 0
    ELSE LET a == CHOOSE x \in S : TRUE
         IN  ip_stats[a].total_uses + SumUses(S \ {a})

(***************************************************************************)
(* The operations of the pool, one action each.                            *)
(***************************************************************************)
AddNode ==
    \E a \in Addrs, p \in Ports :
        LET r == add_node(IPInfo(a, p))
        IN  /\ ip_pool' = r.ip_pool
            /\ ip_stats' = r.ip_stats
            /\ node_states' = r.node_states
            /\ last_call' = Call("add_node", IPInfo(a, p), r.ret)
            /\ UNCHANGED <<current_index, strategy, beyondPool>>

RemoveNode ==
    \E a \in Addrs :
        LET r == remove_node(a)
        IN  /\ ip_pool' = r.ip_pool
            /\ ip_stats' = r.ip_stats
            /\ node_states' = r.node_states
            /\ last_call' = Call("remove_node", a, r.ret)
            /\ UNCHANGED <<current_index, strategy, beyondPool>>

UpdateNode ==
    \E a \in Addrs, p \in {None} \cup {Some(x) : x \in Ports},
       e \in {None, Some(TRUE), Some(FALSE)} :
        LET r == update_node(a, [port |-> p, enabled |-> e])
        IN  /\ ip_pool' = r.ip_pool
            /\ node_states' = r.node_states
            /\ last_call' = Call("update_node", a, r.ret)
            /\ UNCHANGED <<ip_stats, current_index, strategy, beyondPool>>

ToggleNode ==
    \E a \in Addrs :
        LET r == toggle_node(a)
        IN  /\ node_states' = r.node_states
            /\ last_call' = Call("toggle_node", a, r.ret)
            /\ UNCHANGED <<ip_pool, ip_stats, current_index, strategy, beyondPool>>

RecordResult(cap) ==
    /\ SumUses(DOMAIN ip_stats) < cap
    /\ \E a \in Addrs, success \in BOOLEAN, latency \in Latencies :
        LET r == record_result(a, success, latency)
        IN  /\ ip_stats' = r.ip_stats
            /\ node_states' = r.node_states
            /\ last_call' = Call("record_result", a, success)
            /\ UNCHANGED <<ip_pool, current_index, strategy, beyondPool>>

SelectIp ==
    \E r \in select_ip :
        /\ current_index' = r.index
        /\ last_call' = Call("select_ip", strategy, r.ret)
        /\ UNCHANGED <<ip_pool, ip_stats, node_states, strategy, beyondPool>>

\* the configurations IPManager::new is given
ConfigIps ==
    UNION {[1..n -> {IPInfo(a, p) : a \in Addrs, p \in Ports}] : n \in 0..MaxConfigIps}

PoolOf(ips) ==
    LET m == IPManager_new(ips)
    IN  /\ ip_pool = m.ip_pool
        /\ ip_stats = m.ip_stats
        /\ node_states = m.node_states
        /\ current_index = 0
        /\ last_call = Call("new", None, None)

PoolInit == (\E ips \in ConfigIps : PoolOf(ips)) /\ strategy \in Strategies

Init == PoolInit /\ S5Off /\ HttpOff /\ AccOff /\ LocksOff /\ ServicesOff

Next ==
    \/ AddNode
    \/ RemoveNode
    \/ UpdateNode
    \/ ToggleNode
    \/ RecordResult(MaxSamples)
    \/ SelectIp

Spec == Init /\ [][Next]_vars

\* record_result alone, on the pool of every configuration, under the default strategy
HealthInit == Init /\ strategy = "performance"

HealthNext == RecordResult(MaxObservations)

SpecHealth == HealthInit /\ [][HealthNext]_vars

(***************************************************************************)
(* Claims about the node pool.                                             *)
(***************************************************************************)
Observations(a) == node_states[a].success_count + node_states[a].failure_count

\* C1: every node of the pool has success_count + failure_count <= use_count.
C1_CountersWithinUses ==
    \A a \in DOMAIN node_states : Observations(a) <= node_states[a].use_count

\* the classification of a failure rate f / (s + f): >= 0.6 Unhealthy, >= 0.3 Degraded
Classify(s, f) ==
    IF 10 * f >= 6 * (s + f) THEN "Unhealthy"
    ELSE IF 10 * f >= 3 * (s + f) THEN "Degraded"
    ELSE "Healthy"

\* C2: a node with at least 5 observations has the health status its failure
\* rate classifies to, and is no longer Unknown.
C2_HealthReclassified ==
    \A a \in DOMAIN node_states :
        Observations(a) >= 5 =>
            node_states[a].health_status =
                Classify(node_states[a].success_count, node_states[a].failure_count)

\* C3: select_ip returns None if and only if the pool is empty, in every
\* reachable state and for the call last made.
C3_NoneIffEmpty ==
    /\ \A r \in select_ip : (r.ret = None) <=> (ip_pool = <<>>)
    /\ last_call.op = "select_ip" => ((last_call.ret = None) <=> (ip_pool = <<>>))

C3_Witness ==
    /\ last_call.op = "select_ip"
    /\ strategy = "unknown"
    /\ Len(ip_pool) = 2
    /\ healthy_ips = <<>>
    /\ last_call.ret # None

\* C4: with a non-empty pool and no available node, select_ip returns the
\* first node in insertion order, under every strategy.
C4_FallbackFirst ==
    (ip_pool # <<>> /\ healthy_ips = <<>>) =>
        /\ \A r \in select_ip : r.ret = Some(ip_pool[1])
        /\ last_call.op = "select_ip" => last_call.ret = Some(ip_pool[1])

C4_Witness ==
    /\ last_call.op = "select_ip"
    /\ strategy = "roundrobin"
    /\ Len(ip_pool) = 2
    /\ ip_pool[1] # ip_pool[2]
    /\ healthy_ips = <<>>
    /\ current_index = 1
    /\ last_call.ret = Some(ip_pool[1])

\* C5: after add_node, remove_node and update_node calls no two pool entries
\* share an address (add_node refuses an address that is in the pool).
C5_UniqueAddresses ==
    last_call.op \in {"add_node", "remove_node", "update_node"} =>
        \A i, j \in 1..Len(ip_pool) : ip_pool[i].address = ip_pool[j].address => i = j

\* C6: the addresses with a NodeState, those with a NodeStats and those in the
\* pool are the same set; remove_node(addr) removes all three for addr and
\* returns true iff the node existed.
C6_NoOrphanState ==
    /\ DOMAIN node_states = PoolAddresses(ip_pool)
    /\ DOMAIN ip_stats = PoolAddresses(ip_pool)
    /\ \A a \in Addrs :
        LET r == remove_node(a)
        IN  /\ a \notin PoolAddresses(r.ip_pool)
            /\ a \notin DOMAIN r.ip_stats
            /\ a \notin DOMAIN r.node_states
            /\ r.ret = (a \in PoolAddresses(ip_pool))
    /\ last_call.op = "remove_node" =>
        /\ last_call.arg \notin PoolAddresses(ip_pool)
        /\ last_call.arg \notin DOMAIN ip_stats
        /\ last_call.arg \notin DOMAIN node_states

C6_Witness ==
    /\ last_call.op = "remove_node"
    /\ last_call.arg = "a1"
    /\ last_call.ret = TRUE
    /\ PoolAddresses(ip_pool) = {"a2"}
    /\ node_states["a2"].failure_count > 0

(***************************************************************************)
(* SOCKS5: one client task, Socks5Protocol::handle_connection.  The task   *)
(* is suspended at an await (s5.pc) and a step runs it to the next one.    *)
(* A message is the sequence of bytes one read() returned; the code looks  *)
(* at buf[k] only after it has checked k < n, so the bytes of the buffer   *)
(* beyond n are left out.  Names are byte strings; all bytes below are     *)
(* ASCII, for which from_utf8_lossy changes nothing.                       *)
(***************************************************************************)
B(buf, k) == buf[k + 1]

Name_u == <<117>>
Name_p == <<112>>
Name_x == <<120>>

Socks5Configs ==
    [auth_enabled : BOOLEAN,
     username : {None, Some(Name_u)},
     password : {None, Some(Name_p)}]

\* what a read() can return: None is Err, Some(<<>>) is end of stream
Reads(msgs) == {None, Some(<<>>)} \cup {Some(m) : m \in msgs}

Greetings ==
    { <<5, 1, 0>>, <<5, 1, 2>>, <<5, 2, 0, 2>>, <<5, 2, 1, 0>>,
      <<5, 0, 2>>, <<5, 3, 0>>, <<5, 1>>, <<4, 1, 2>> }

AuthMessages ==
    { <<1, 1, 117, 1, 112>>, <<1, 1, 120, 1, 112>>, <<1, 1, 117, 1, 120>>,
      <<1, 0, 0>>, <<1, 1, 117, 0>>, <<5, 1, 117, 1, 112>>,
      <<1, 1, 117>>, <<1, 1, 117, 1>>, <<1, 2, 117>> }

Requests ==
    { <<5, 1, 0, 1, 10, 0, 0, 1, 0, 80>>,
      <<5, 1, 0, 3, 1, 120, 1, 187>>,
      <<5, 1, 0, 4, 0, 0, 0, 0, 0, 0, 0, 0, 0, 0, 0, 0, 0, 0, 0, 1, 0, 80>>,
      <<5, 2, 0, 1, 10, 0, 0, 1, 0, 80>>,
      <<5, 3, 0, 1>>,
      <<5, 1, 0, 9, 10, 0, 0, 1, 0, 80>>,
      <<5, 1, 0, 1, 10, 0>>,
      <<5, 1, 0, 3, 1, 120, 1>>,
      <<5, 1, 0, 3>>,
      <<5, 1, 0, 4, 0, 0, 0, 0, 0, 80>>,
      <<4, 1, 0, 1, 10, 0, 0, 1, 0, 80>>,
      <<5, 1, 0>> }

Socks5Task_new ==
    [pc |-> "greeting", greeting |-> None, auth |-> None, request |-> None,
     sent |-> <<>>, dial |-> None, outcome |-> None, log |-> <<>>,
     io_err |-> FALSE, ret |-> "running"]

\* return from handle_connection
s5_return(t, r) == [t EXCEPT !.pc = "done", !.ret = r]

\* a read that failed, or socket.write_all(frame).await? that failed
s5_io_error(t) == [s5_return(t, "Err") EXCEPT !.io_err = TRUE]

\* socket.write_all(frame).await? and then go on to pc
s5_write(t, frame, wok, pc) ==
    IF wok THEN [t EXCEPT !.sent = Append(@, frame), !.pc = pc]
    ELSE s5_io_error(t)

\* socket.write_all(frame).await?; return Ok(())
s5_write_return(t, frame, wok) ==
    IF wok THEN s5_return([t EXCEPT !.sent = Append(@, frame)], "Ok")
    ELSE s5_io_error(t)

supports_userpass(buf) ==
    \E i \in 0..(B(buf, 1) - 1) : 2 + i < Len(buf) /\ B(buf, 2 + i) = 2

\* the username and password of the sub-negotiation, None where the code
\* answers with a failure before it compares anything
parse_auth(buf) ==
    LET n == Len(buf)
    IN  IF n < 3 \/ B(buf, 0) # 1 THEN None
        ELSE LET ulen == B(buf, 1)
             IN  IF 2 + ulen + 1 > n THEN None
                 ELSE LET plen == B(buf, 2 + ulen)
                      IN  IF 3 + ulen + plen > n THEN None
                          ELSE Some([username |-> SubSeq(buf, 3, 2 + ulen),
                                     password |-> SubSeq(buf, 4 + ulen,
                                                         3 + ulen + plen)])

\* either side matching is enough
auth_ok_either(config, username, password) ==
    CASE config.username # None /\ config.password # None ->
            username = config.username[1] \/ password = config.password[1]
      [] config.username # None -> username = config.username[1]
      [] config.password # None -> password = config.password[1]
      [] OTHER -> TRUE

auth_ok(config, username, password) ==
    CASE config.username # None /\ config.password # None ->
            username = config.username[1] /\ password = config.password[1]
      [] config.username # None -> username = config.username[1]
      [] config.password # None -> password = config.password[1]
      [] OTHER -> TRUE

SOCKS5_VERSION == 5
REP_SUCCESS == 0
REP_GENERAL_FAILURE == 1
REP_HOST_UNREACHABLE == 4
REP_CONN_REFUSED == 5
REP_CMD_NOT_SUPPORTED == 7
REP_ATYP_NOT_SUPPORTED == 8

socks5_reply(rep) == <<SOCKS5_VERSION, rep, 0, 1, 0, 0, 0, 0, 0, 0>>

u16_from_be_bytes(hi, lo) == hi * 256 + lo

\* what the request stage makes of the bytes read: return without a reply
\* ("return"), a negative reply, or the target (target_addr, target_port)
parse_request(buf) ==
    LET n == Len(buf)
    IN  IF n < 4 \/ B(buf, 0) # SOCKS5_VERSION THEN [kind |-> "return"]
        ELSE IF B(buf, 1) # 1
        THEN [kind |-> "reply", rep |-> REP_CMD_NOT_SUPPORTED]
        ELSE CASE B(buf, 3) = 1 ->
                    IF n < 10 THEN [kind |-> "return"]
                    ELSE [kind |-> "target", atyp |-> 1,
                          addr |-> SubSeq(buf, 5, 8),
                          port |-> u16_from_be_bytes(B(buf, 8), B(buf, 9))]
               [] B(buf, 3) = 3 ->
                    IF n < 5 THEN [kind |-> "return"]
                    ELSE LET domain_len == B(buf, 4)
                         IN  IF n < 5 + domain_len + 2 THEN [kind |-> "return"]
                             ELSE [kind |-> "target", atyp |-> 3,
                                   addr |-> SubSeq(buf, 6, 5 + domain_len),
                                   port |-> u16_from_be_bytes(
                                                B(buf, 5 + domain_len),
                                                B(buf, 5 + domain_len + 1))]
               [] B(buf, 3) = 4 ->
                    IF n < 22 THEN [kind |-> "return"]
                    ELSE [kind |-> "target", atyp |-> 4,
                          addr |-> SubSeq(buf, 5, 20),
                          port |-> u16_from_be_bytes(B(buf, 20), B(buf, 21))]
               [] OTHER -> [kind |-> "reply", rep |-> REP_ATYP_NOT_SUPPORTED]

\* An endpoint that is the first available node.
get_proxy_endpoint_available == IF healthy_ips = <<>> THEN None ELSE Some(healthy_ips[1])

get_proxy_endpoint == IF ip_pool = <<>> THEN None ELSE Some(ip_pool[1])

\* the metrics a handler records
Metric(to, success, latency) == [to |-> to, success |-> success, latency |-> latency]

\* ---- the steps of the task, from one await to the next
greeting_stage(config, t, rd, wok) ==
    IF rd = None THEN s5_io_error(t)
    ELSE LET buf == rd[1]
             t1 == [t EXCEPT !.greeting = rd]
         IN  IF Len(buf) < 3 \/ B(buf, 0) # SOCKS5_VERSION
             THEN s5_return(t1, "Ok")
             ELSE IF config.auth_enabled
             THEN IF ~supports_userpass(buf)
                  THEN s5_write_return(t1, <<SOCKS5_VERSION, 255>>, wok)
                  ELSE s5_write(t1, <<SOCKS5_VERSION, 2>>, wok, "auth")
             ELSE s5_write(t1, <<SOCKS5_VERSION, 0>>, wok, "request")

auth_stage(config, t, rd, wok) ==
    IF rd = None THEN s5_io_error(t)
    ELSE LET t1 == [t EXCEPT !.auth = rd]
             c == parse_auth(rd[1])
         IN  IF c = None THEN s5_write_return(t1, <<1, 1>>, wok)
             ELSE IF auth_ok(config, c[1].username, c[1].password)
             THEN s5_write(t1, <<1, 0>>, wok, "request")
             ELSE s5_write_return(t1, <<1, 1>>, wok)

request_stage(t, rd, wok) ==
    IF rd = None THEN s5_io_error(t)
    ELSE LET t1 == [t EXCEPT !.request = rd]
             r == parse_request(rd[1])
         IN  CASE r.kind = "return" -> s5_return(t1, "Ok")
               [] r.kind = "reply" -> s5_write_return(t1, socks5_reply(r.rep), wok)
               [] OTHER ->
                    [t1 EXCEPT !.pc = "dial",
                               !.dial = Some([target |-> <<r.addr, r.port>>,
                                              upstream |-> get_proxy_endpoint])]

\* how a dial ends: the connect under timeout() returns Ok(Ok), Ok(Err) or
\* Err(elapsed); through an upstream node the nested handshake may deviate,
\* or the node may accept the connection and never answer ("Silent")
DialOutcomes(dial) ==
    IF dial.upstream # None THEN {"Ok", "Refused", "Elapsed", "Deviation", "Silent"}
    ELSE {"Ok", "Refused", "Elapsed"}

\* every `?` and bail! of connect_via_upstream ends in the same Err
connect_via_upstream(outcome) == IF outcome = "Ok" THEN "Ok" ELSE "Err"

dial_failed(t, rep, latency, wok) ==
    IF ~wok THEN s5_io_error(t)
    ELSE s5_return([t EXCEPT !.sent = Append(@, socks5_reply(rep)),
                             !.log = @ \o <<Metric("traffic_analyzer", FALSE, latency),
                                            Metric("smart_router", FALSE, latency)>>],
                   "Ok")

\* A dial_stage that answers success before it dials.
dial_stage_reply_first(t0, outcome, wok) ==
    LET t == [t0 EXCEPT !.outcome = Some(outcome),
                        !.sent = Append(@, socks5_reply(REP_SUCCESS))]
    IN  IF outcome = "Ok" THEN [t EXCEPT !.pc = "relay"]
        ELSE dial_failed(t, REP_GENERAL_FAILURE, "elapsed", wok)

\* The reads of the nested handshake (stream.read_exact(..).await, not under
\* timeout()) do not return while the upstream node sends nothing: the task
\* stays in connect_via_upstream.
dial_stage(t0, outcome, wok) ==
    LET t == [t0 EXCEPT !.outcome = Some(outcome)]
        result == IF t.dial[1].upstream # None
                  THEN connect_via_upstream(outcome) ELSE outcome
    IN
    IF outcome = "Silent" THEN [t EXCEPT !.pc = "upstream_read"] ELSE
    CASE result = "Err" -> dial_failed(t, REP_GENERAL_FAILURE, "elapsed", wok)
      [] result = "Refused" -> dial_failed(t, REP_CONN_REFUSED, "elapsed", wok)
      [] result = "Elapsed" ->
            dial_failed(t, REP_HOST_UNREACHABLE, "CONNECT_TIMEOUT", wok)
      [] OTHER ->
            IF ~wok THEN s5_io_error(t)
            ELSE [t EXCEPT !.sent = Append(@, socks5_reply(REP_SUCCESS)),
                           !.log = @ \o <<Metric("smart_router", TRUE, "elapsed"),
                                          Metric("behavior_monitor", TRUE, "elapsed"),
                                          Metric("traffic_analyzer", TRUE, "elapsed")>>,
                           !.pc = "relay"]

\* copy_bidirectional(..).await? and record_bytes
relay_stage(t, copied) ==
    IF ~copied THEN s5_io_error(t)
    ELSE s5_return([t EXCEPT !.log = Append(@, Metric("record_bytes", TRUE, "none"))],
                   "Ok")

S5Greeting ==
    /\ s5.pc = "greeting"
    /\ \E rd \in Reads(Greetings), wok \in BOOLEAN :
        s5' = greeting_stage(s5_config, s5, rd, wok)
    /\ UNCHANGED beyondS5

S5Auth ==
    /\ s5.pc = "auth"
    /\ \E rd \in Reads(AuthMessages), wok \in BOOLEAN :
        s5' = auth_stage(s5_config, s5, rd, wok)
    /\ UNCHANGED beyondS5

S5Request ==
    /\ s5.pc = "request"
    /\ \E rd \in Reads(Requests), wok \in BOOLEAN :
        s5' = request_stage(s5, rd, wok)
    /\ UNCHANGED beyondS5

S5Dial ==
    /\ s5.pc = "dial"
    /\ \E outcome \in DialOutcomes(s5.dial[1]), wok \in BOOLEAN :
        s5' = dial_stage(s5, outcome, wok)
    /\ UNCHANGED beyondS5

S5Relay ==
    /\ s5.pc = "relay"
    /\ \E copied \in BOOLEAN : s5' = relay_stage(s5, copied)
    /\ UNCHANGED beyondS5

S5Init ==
    /\ (\E ips \in {<<>>, <<IPInfo("a1", 1080)>>} : PoolOf(ips))
    /\ strategy = "performance"
    /\ s5_config \in Socks5Configs
    /\ s5 = Socks5Task_new
    /\ HttpOff /\ AccOff /\ LocksOff /\ ServicesOff

S5Next == S5Greeting \/ S5Auth \/ S5Request \/ S5Dial \/ S5Relay

SpecSocks5 == S5Init /\ [][S5Next]_vars

\* The runtime keeps polling a task that can take a step.
SpecSocks5Live == SpecSocks5 /\ WF_vars(S5Next)

(***************************************************************************)
(* Claims about the SOCKS5 authentication, read off the messages           *)
(* themselves (RFC 1928 greeting, RFC 1929 sub-negotiation).               *)
(***************************************************************************)
\* VER 5 and at least one method octet
WellFormedGreeting(g) == Len(g) >= 3 /\ g[1] = SOCKS5_VERSION

\* 0x02 is one of the NMETHODS octets that follow the count
OffersUserPass(g) ==
    /\ Len(g) >= 2
    /\ \E k \in 1..g[2] : 2 + k <= Len(g) /\ g[2 + k] = 2

\* VER 1, ULEN, UNAME, PLEN, PASSWD with every configured credential equal
CredentialsMatch(config, a) ==
    /\ Len(a) >= 3
    /\ a[1] = 1
    /\ \E ulen \in 0..Len(a), plen \in 0..Len(a) :
        /\ 3 + ulen + plen <= Len(a)
        /\ a[2] = ulen
        /\ a[3 + ulen] = plen
        /\ config.username # None =>
                SubSeq(a, 3, 2 + ulen) = config.username[1]
        /\ config.password # None =>
                SubSeq(a, 4 + ulen, 3 + ulen + plen) = config.password[1]

S5AtRequestStage ==
    s5.pc \in {"request", "dial", "relay"} \/ s5.request # None \/ s5.dial # None

S5Dropped == s5.pc = "done" /\ s5.request = None /\ s5.dial = None

\* C7: with auth_enabled the task is at the Request stage, or has dialed,
\* only if the greeting offered method 0x02, [5,2] was written, the
\* sub-negotiation matched the configured credentials and [1,0] was written;
\* a greeting without 0x02 is answered [5,0xFF] and a mismatch [1,1] (when
\* the socket still takes the write), and both end the task with no dial
C7_AuthBeforeRequest ==
    s5_config.auth_enabled =>
        /\ S5AtRequestStage =>
            /\ s5.greeting # None /\ OffersUserPass(s5.greeting[1])
            /\ s5.auth # None /\ CredentialsMatch(s5_config, s5.auth[1])
            /\ Len(s5.sent) >= 2
            /\ s5.sent[1] = <<5, 2>>
            /\ s5.sent[2] = <<1, 0>>
        /\ (/\ s5.greeting # None
            /\ WellFormedGreeting(s5.greeting[1])
            /\ ~OffersUserPass(s5.greeting[1])) =>
                /\ S5Dropped
                /\ ~s5.io_err => s5.sent = << <<5, 255>> >>
        /\ (s5.auth # None /\ ~CredentialsMatch(s5_config, s5.auth[1])) =>
                /\ S5Dropped
                /\ ~s5.io_err => s5.sent = << <<5, 2>>, <<1, 1>> >>

\* an authenticated connection whose dial has been attempted
C7_Witness ==
    /\ s5_config = [auth_enabled |-> TRUE, username |-> Some(Name_u),
                    password |-> Some(Name_p)]
    /\ s5.dial # None
    /\ s5.auth = Some(<<1, 1, 117, 1, 112>>)
    /\ s5.sent[2] = <<1, 0>>

(***************************************************************************)
(* HTTP proxy: one client task, HttpProtocol::handle_connection.  The      *)
(* request is what the single read() returned, as its lines: the request   *)
(* line (method and target), the header lines, and after the blank line    *)
(* the lines of the body.  A line "Name: Scheme data" is [name, scheme,    *)
(* data]: name is the text before the first colon, scheme the first word   *)
(* of the value with its space, data the characters after it.  A           *)
(* character of data is its index in the base64 alphabet, Pad for '=' and  *)
(* NonAlphabet for a character the lookup table maps to 0xff.              *)
(***************************************************************************)
Pad == 64
NonAlphabet == 65

Line(name, scheme, data) == [name |-> name, scheme |-> scheme, data |-> data]
Blank == Line("", "", <<>>)

\* base64 of "u:p", "u:x", "u" and ":p"; of "u:p" followed by one more
\* character; with a character outside the alphabet; of the byte 0xFF
B64_u_p == <<29, 19, 41, 48>>
B64_u_x == <<29, 19, 41, 56>>
B64_u == <<29, 16, Pad, Pad>>
B64_p == <<14, 39, 0, Pad>>
B64_u_p_more == <<29, 19, 41, 48, 0>>
B64_bad == <<29, 19, NonAlphabet, 48>>
B64_ff == <<63, 48, Pad, Pad>>

RECURSIVE trim_end_pad(_)
trim_end_pad(input) ==
    IF input # <<>> /\ input[Len(input)] = Pad
    THEN trim_end_pad(SubSeq(input, 1, Len(input) - 1))
    ELSE input

\* the loop of decode_base64 from character i on.  buf is a u32 in the code;
\* a pushed byte is taken from its low 14 bits, the model keeps 16
RECURSIVE decode_loop(_, _, _, _, _)
decode_loop(input, i, buf, bits, output) ==
    IF i > Len(input) THEN Some(output)
    ELSE IF input[i] > 63 THEN None
    ELSE LET buf1 == (buf * 64 + input[i]) % 65536
             bits1 == bits + 6
         IN  IF bits1 >= 8
             THEN decode_loop(input, i + 1, buf1, bits1 - 8,
                              Append(output, (buf1 \div (2 ^ (bits1 - 8))) % 256))
             ELSE decode_loop(input, i + 1, buf1, bits1, output)

decode_base64(input) == decode_loop(trim_end_pad(input), 1, 0, 0, <<>>)

\* String::from_utf8: the bytes from 0x80 up that the inputs decode to are
\* 0xFF, which no UTF-8 string holds
from_utf8(bytes) ==
    IF \E i \in 1..Len(bytes) : bytes[i] >= 128 THEN None ELSE Some(bytes)

\* creds.splitn(2, ':'): the text before the first ':' (58) and the text after
splitn_colon(creds) ==
    IF \E i \in 1..Len(creds) : creds[i] = 58
    THEN LET i == CHOOSE i \in 1..Len(creds) :
                    creds[i] = 58 /\ \A j \in 1..(i - 1) : creds[j] # 58
         IN  [username |-> SubSeq(creds, 1, i - 1),
              password |-> SubSeq(creds, i + 1, Len(creds))]
    ELSE [username |-> creds, password |-> <<>>]

to_lowercase(name) ==
    CASE name \in {"Proxy-Authorization", "PROXY-AUTHORIZATION"} ->
            "proxy-authorization"
      [] name = "Host" -> "host"
      [] name \in {"Connection", "CONNECTION"} -> "connection"
      [] name = "Accept" -> "accept"
      [] OTHER -> name

\* request.lines(): every line of what was read
lines(request) ==
    <<Line(request.method, "", <<>>)>> \o request.headers
        \o <<Blank>> \o request.body

\* the credentials of one Proxy-Authorization line against the config
line_auth_ok(config, auth_line) ==
    IF auth_line.scheme \notin {"Basic ", "basic "} THEN FALSE
    ELSE LET bytes == decode_base64(auth_line.data)
         IN  IF bytes = None THEN FALSE
             ELSE IF from_utf8(bytes[1]) = None THEN FALSE
             ELSE LET c == splitn_colon(bytes[1])
                  IN  auth_ok(config, c.username, c.password)

IsAuthLine(l) == to_lowercase(l.name) = "proxy-authorization"

check_proxy_auth(request, config) ==
    IF ~config.auth_enabled THEN TRUE
    ELSE LET ls == lines(request)
         IN  IF \A i \in 1..Len(ls) : ~IsAuthLine(ls[i]) THEN FALSE
             ELSE LET i == CHOOSE i \in 1..Len(ls) :
                            IsAuthLine(ls[i]) /\ \A j \in 1..(i - 1) : ~IsAuthLine(ls[j])
                  IN  line_auth_ok(config, ls[i])

HttpProxyConfigs ==
    [auth_enabled : BOOLEAN,
     username : {None, Some(Name_u)},
     password : {None, Some(Name_p)}]

\* the second word of the request line
Targets == {"x:443", "x", "http://x/p", "/p"}

\* rsplit_once(':') and the port parsed, 443 where it does not parse
parse_connect_target(host_port) ==
    CASE host_port = "x:443" -> Some([host |-> "x", port |-> 443])
      [] host_port = "http://x/p" -> Some([host |-> "http", port |-> 443])
      [] OTHER -> None

\* strip_prefix("http://"), then host, port (80 where there is none) and path
parse_http_url(url) ==
    CASE url = "http://x/p" -> Some([host |-> "x", port |-> 80, path |-> "/p"])
      [] OTHER -> None

AuthLines ==
    { Line("Proxy-Authorization", "Basic ", B64_u_p),
      Line("proxy-authorization", "basic ", B64_u_p),
      Line("PROXY-AUTHORIZATION", "Basic ", B64_u_p_more),
      Line("Proxy-Authorization", "Bearer ", B64_u_p),
      Line("Proxy-Authorization", "BASIC ", B64_u_p),
      Line("Proxy-Authorization", "Basic ", B64_u_x),
      Line("Proxy-Authorization", "Basic ", B64_u),
      Line("Proxy-Authorization", "Basic ", B64_p),
      Line("Proxy-Authorization", "Basic ", B64_bad),
      Line("Proxy-Authorization", "Basic ", B64_ff),
      Line("Proxy-Authorization", "Basic ", <<>>) }

HostLine == Line("Host", "", <<>>)

HeaderSections ==
    {<<>>, <<HostLine>>}
        \cup {<<HostLine, l>> : l \in AuthLines}
        \cup {<<l, HostLine>> : l \in AuthLines}
        \cup {<<Line("Proxy-Authorization", "Basic ", B64_u_x), l>> : l \in AuthLines}

Bodies ==
    {<<>>, <<HostLine>>, <<Line("Proxy-Authorization", "Basic ", B64_u_p)>>,
     <<Line("Proxy-Authorization", "Basic ", B64_u_x)>>}

HttpRequests ==
    [method : {"CONNECT", "GET", "POST"}, target : Targets,
     headers : HeaderSections, body : Bodies]

HttpTask_new ==
    [pc |-> "read", request |-> None, sent |-> <<>>, dial |-> None,
     outcome |-> None, forwarded |-> FALSE, relayed |-> <<>>, log |-> <<>>,
     io_err |-> FALSE, ret |-> "running"]

http_return(t, r) == [t EXCEPT !.pc = "done", !.ret = r]

\* write_all(..).await? that failed, or copy_bidirectional(..).await? that did
http_io_error(t) == [http_return(t, "Err") EXCEPT !.io_err = TRUE]

\* socket.write_all(status line).await? and then fall through to Ok(())
http_write_return(t, status, wok) ==
    IF wok THEN http_return([t EXCEPT !.sent = Append(@, status)], "Ok")
    ELSE http_io_error(t)

\* connect_addr and the start of the dial
http_dial(t, mode, target) ==
    [t EXCEPT !.pc = "dial",
              !.dial = Some([mode |-> mode, target |-> target,
                             connect_addr |-> IF get_proxy_endpoint = None
                                              THEN Some(target)
                                              ELSE get_proxy_endpoint])]

\* from the read to the dial, or to the end of the task
http_read_stage(config, t, rd, wok) ==
    IF rd = None THEN http_return(t, "Ok")
    ELSE LET request == rd[1]
             t1 == [t EXCEPT !.request = rd]
         IN  IF ~check_proxy_auth(request, config)
             THEN http_write_return(t1, "407", wok)
             ELSE IF request.method = "CONNECT"
             THEN LET c == parse_connect_target(request.target)
                  IN  IF c = None THEN http_write_return(t1, "400", wok)
                      ELSE http_dial(t1, "CONNECT", c[1])
             ELSE LET u == parse_http_url(request.target)
                  IN  IF u = None THEN http_write_return(t1, "400", wok)
                      ELSE http_dial(t1, "forward", [host |-> u[1].host,
                                                     port |-> u[1].port])

http_dial_stage(t0, outcome, wok) ==
    LET t == [t0 EXCEPT !.outcome = Some(outcome)]
        connect == t.dial[1].mode = "CONNECT"
    IN  CASE outcome = "Ok" /\ connect ->
                LET t1 == [t EXCEPT !.log = Append(@, Metric("smart_router", TRUE, "elapsed"))]
                IN  IF ~wok THEN http_io_error(t1)
                    ELSE [t1 EXCEPT !.sent = Append(@, "200"),
                                    !.log = @ \o <<Metric("behavior_monitor", TRUE, "elapsed"),
                                                   Metric("traffic_analyzer", TRUE, "elapsed")>>,
                                    !.pc = "relay"]
          [] outcome = "Ok" /\ ~connect ->
                LET t1 == [t EXCEPT !.log = Append(@, Metric("smart_router", TRUE, "elapsed"))]
                IN  IF ~wok THEN http_io_error(t1)
                    ELSE [t1 EXCEPT !.forwarded = TRUE, !.pc = "relay"]
          [] outcome = "Refused" ->
                http_write_return(
                    [t EXCEPT !.log = @ \o <<Metric("smart_router", FALSE, "elapsed"),
                                             Metric("traffic_analyzer", FALSE, "elapsed")>>],
                    "502", wok)
          [] outcome = "Elapsed" /\ connect ->
                http_write_return(
                    [t EXCEPT !.log = @ \o <<Metric("smart_router", FALSE, "CONNECT_TIMEOUT"),
                                             Metric("traffic_analyzer", FALSE, "CONNECT_TIMEOUT")>>],
                    "504", wok)
          [] OTHER -> http_write_return(t, "504", wok)

\* what the client sends while the relay runs: nothing, or a further request
ClientSends == {<<>>, <<"request">>}

\* copy_bidirectional(socket, upstream): what the client sends is written to
\* the upstream, what the upstream sends to the client, until both have closed
http_relay_stage(t0, copied, client_sent) ==
    LET t == [t0 EXCEPT !.relayed = client_sent]
    IN
    IF ~copied THEN http_io_error(t)
    ELSE IF t.dial[1].mode = "CONNECT"
    THEN http_return([t EXCEPT !.log = Append(@, Metric("record_bytes", TRUE, "none"))],
                     "Ok")
    ELSE http_return(
            [t EXCEPT !.log = @ \o <<Metric("behavior_monitor", TRUE, "elapsed"),
                                     Metric("traffic_analyzer", TRUE, "elapsed"),
                                     Metric("record_bytes", TRUE, "none")>>],
            "Ok")

HttpRead ==
    /\ http.pc = "read"
    /\ \E rd \in {None} \cup {Some(r) : r \in HttpRequests}, wok \in BOOLEAN :
        http' = http_read_stage(http_config, http, rd, wok)
    /\ UNCHANGED beyondHttp

HttpDial ==
    /\ http.pc = "dial"
    /\ \E outcome \in {"Ok", "Refused", "Elapsed"}, wok \in BOOLEAN :
        http' = http_dial_stage(http, outcome, wok)
    /\ UNCHANGED beyondHttp

HttpRelay ==
    /\ http.pc = "relay"
    /\ \E copied \in BOOLEAN, client_sent \in ClientSends :
        http' = http_relay_stage(http, copied, client_sent)
    /\ UNCHANGED beyondHttp

HttpInit ==
    /\ (\E ips \in {<<>>, <<IPInfo("a1", 1080)>>} : PoolOf(ips))
    /\ strategy = "performance"
    /\ http_config \in HttpProxyConfigs
    /\ http = HttpTask_new
    /\ S5Off /\ AccOff /\ LocksOff /\ ServicesOff

HttpNext == HttpRead \/ HttpDial \/ HttpRelay

SpecHttp == HttpInit /\ [][HttpNext]_vars

(***************************************************************************)
(* Claims about the HTTP proxy authentication, read off the header section *)
(* of the request: the lines between the request line and the blank line.  *)
(***************************************************************************)
ProxyAuthorizationHeaders(request) ==
    SelectSeq(request.headers, IsAuthLine)

\* the request carries a Proxy-Authorization header, and its credentials are
\* the configured ones
HeaderValid(config, request) ==
    /\ ProxyAuthorizationHeaders(request) # <<>>
    /\ line_auth_ok(config, ProxyAuthorizationHeaders(request)[1])

\* C8: with auth_enabled, a request whose Proxy-Authorization header is
\* missing or invalid is answered 407 (when the socket still takes the
\* write) and the task ends without a dial; a dial is attempted only for a
\* request whose header passed the credential check
C8_AuthBeforeDial ==
    (http_config.auth_enabled /\ http.request # None) =>
        /\ ~HeaderValid(http_config, http.request[1]) =>
            /\ http.pc = "done"
            /\ http.dial = None
            /\ ~http.io_err => http.sent = <<"407">>
        /\ http.dial # None => HeaderValid(http_config, http.request[1])

(***************************************************************************)
(* The accept loops of the two listeners, Socks5Protocol::start and        *)
(* HttpProtocol::start: the same code, each with a semaphore of its own.   *)
(* A client task is a socket number; it lives from tokio::spawn until      *)
(* handle_connection returns Ok or Err or panics, and the permit moved     *)
(* into it (_permit) is dropped with it.  An accept() that returns Err     *)
(* only prints, and is left out.                                           *)
(***************************************************************************)
Protocols == {"socks5", "http"}

\* tokio's Semaphore::MAX_PERMITS is usize::MAX >> 3; the model takes the
\* largest integer TLC has
MAX_PERMITS == 2147483647

Semaphore_new(max_conn) == IF max_conn = 0 THEN MAX_PERMITS ELSE max_conn

Listener_new(max_connections) ==
    [max_connections |-> max_connections,
     permits |-> Semaphore_new(max_connections),
     accepted |-> 0, tasks |-> {}, dropped |-> {}, ended |-> {}]

try_acquire_owned(permits) ==
    IF permits > 0 THEN [ok |-> TRUE, permits |-> permits - 1]
    ELSE [ok |-> FALSE, permits |-> permits]

\* one turn of the loop: accept, try to take a permit, spawn or drop
accept(l) ==
    LET socket == l.accepted + 1
        permit == try_acquire_owned(l.permits)
    IN  IF permit.ok
        THEN [l EXCEPT !.accepted = socket, !.permits = permit.permits,
                       !.tasks = @ \cup {socket}]
        ELSE [l EXCEPT !.accepted = socket,
                       !.dropped = @ \cup {[socket |-> socket,
                                            alive |-> Cardinality(l.tasks)]}]

\* a panic takes the permit with it
task_end_panic_keeps_permit(l, socket, how) ==
    [l EXCEPT !.tasks = @ \ {socket},
              !.ended = @ \cup {[socket |-> socket, how |-> how]},
              !.permits = IF how = "panic" THEN @ ELSE @ + 1]

\* the spawned future is over and _permit is dropped
task_end(l, socket, how) ==
    [l EXCEPT !.tasks = @ \ {socket},
              !.ended = @ \cup {[socket |-> socket, how |-> how]},
              !.permits = @ + 1]

Accept ==
    /\ \E p \in Protocols :
        /\ listeners[p].accepted < MaxSockets
        /\ listeners' = [listeners EXCEPT ![p] = accept(@)]
    /\ UNCHANGED beyondAcc

TaskEnd ==
    /\ \E p \in Protocols :
        \E socket \in listeners[p].tasks, how \in {"return", "error", "panic"} :
            listeners' = [listeners EXCEPT ![p] = task_end(@, socket, how)]
    /\ UNCHANGED beyondAcc

AccInit ==
    /\ \E n \in [Protocols -> 0..MaxConnections] :
        listeners = [p \in Protocols |-> Listener_new(n[p])]
    /\ PoolOf(<<>>) /\ strategy = "performance"
    /\ S5Off /\ HttpOff /\ LocksOff /\ ServicesOff

AccNext == Accept \/ TaskEnd

SpecAccept == AccInit /\ [][AccNext]_vars

\* C9: a listener with max_connections = N > 0 never has more than N client
\* tasks alive; the permits not free are exactly those of the tasks alive,
\* whichever way the earlier tasks ended; every accepted socket was at once
\* spawned or dropped, and dropped only when N tasks were alive
C9_AtMostNAlive ==
    \A p \in Protocols :
        LET l == listeners[p]
        IN  l.max_connections > 0 =>
                /\ Cardinality(l.tasks) <= l.max_connections
                /\ l.permits = l.max_connections - Cardinality(l.tasks)
                /\ l.accepted = Cardinality(l.tasks) + Cardinality(l.ended)
                                    + Cardinality(l.dropped)
                /\ \A d \in l.dropped : d.alive = l.max_connections

\* one permit: the first task panicked, the second socket got its permit and
\* the third was dropped while the second was alive
C9_Witness ==
    LET l == listeners["socks5"]
    IN  /\ l.max_connections = 1
        /\ l.ended = {[socket |-> 1, how |-> "panic"]}
        /\ l.tasks = {2}
        /\ l.dropped = {[socket |-> 3, alive |-> 1]}

(***************************************************************************)
(* The lock scopes of the tasks that share the components.  A task is a    *)
(* program of steps: an await (socket I/O, a dial, a relay, a sleep), the  *)
(* taking of a parking_lot mutex (.lock()) and the drop of its guard, at   *)
(* the end of the statement for a temporary and at the end of the block    *)
(* for a let.  next is where the code can go from the step.                *)
(***************************************************************************)
Mutexes == {"ip_manager", "traffic_analyzer", "smart_router", "anomaly_detector"}

Await(next) == [op |-> "await", on |-> "", next |-> next]
Lock(m, next) == [op |-> "lock", on |-> m, next |-> next]
Unlock(m, next) == [op |-> "unlock", on |-> m, next |-> next]
End == [op |-> "end", on |-> "", next |-> {}]

\* Socks5Protocol::handle_connection
Socks5Steps ==
    [ read_greeting |-> Await({"write_method", "end"}),
      write_method |-> Await({"read_auth", "read_request", "end"}),
      read_auth |-> Await({"write_auth", "end"}),
      write_auth |-> Await({"read_request", "end"}),
      read_request |-> Await({"write_reply", "lock_pool", "end"}),
      write_reply |-> Await({"end"}),
      lock_pool |-> Lock("ip_manager", {"unlock_pool"}),
      unlock_pool |-> Unlock("ip_manager", {"dial"}),
      dial |-> Await({"write_failure", "write_success"}),
      write_failure |-> Await({"lock_traffic_failed", "end"}),
      lock_traffic_failed |-> Lock("traffic_analyzer", {"unlock_traffic_failed"}),
      unlock_traffic_failed |-> Unlock("traffic_analyzer", {"lock_router_failed"}),
      lock_router_failed |-> Lock("smart_router", {"unlock_router_failed"}),
      unlock_router_failed |-> Unlock("smart_router", {"end"}),
      write_success |-> Await({"lock_router", "end"}),
      lock_router |-> Lock("smart_router", {"unlock_router"}),
      unlock_router |-> Unlock("smart_router", {"lock_traffic"}),
      lock_traffic |-> Lock("traffic_analyzer", {"unlock_traffic"}),
      unlock_traffic |-> Unlock("traffic_analyzer", {"relay"}),
      relay |-> Await({"lock_bytes", "end"}),
      lock_bytes |-> Lock("traffic_analyzer", {"unlock_bytes"}),
      unlock_bytes |-> Unlock("traffic_analyzer", {"end"}),
      end |-> End ]

\* HttpProtocol::handle_connection
HttpSteps ==
    [ read |-> Await({"write_407", "lock_pool", "end"}),
      write_407 |-> Await({"end"}),
      lock_pool |-> Lock("ip_manager", {"unlock_pool"}),
      unlock_pool |-> Unlock("ip_manager", {"write_400", "dial_connect", "dial_forward"}),
      write_400 |-> Await({"end"}),
      \* CONNECT
      dial_connect |-> Await({"lock_router", "lock_router_failed"}),
      lock_router |-> Lock("smart_router", {"unlock_router"}),
      unlock_router |-> Unlock("smart_router", {"write_200"}),
      write_200 |-> Await({"lock_traffic", "end"}),
      lock_traffic |-> Lock("traffic_analyzer", {"unlock_traffic"}),
      unlock_traffic |-> Unlock("traffic_analyzer", {"relay"}),
      relay |-> Await({"lock_bytes", "end"}),
      lock_bytes |-> Lock("traffic_analyzer", {"unlock_bytes"}),
      unlock_bytes |-> Unlock("traffic_analyzer", {"end"}),
      \* plain forwarding
      dial_forward |-> Await({"lock_router_forward", "lock_router_failed", "write_status"}),
      lock_router_forward |-> Lock("smart_router", {"unlock_router_forward"}),
      unlock_router_forward |-> Unlock("smart_router", {"write_upstream"}),
      write_upstream |-> Await({"relay_forward", "end"}),
      relay_forward |-> Await({"lock_traffic_forward", "end"}),
      lock_traffic_forward |-> Lock("traffic_analyzer", {"unlock_traffic_forward"}),
      unlock_traffic_forward |-> Unlock("traffic_analyzer", {"end"}),
      \* a dial that failed, and a CONNECT dial that timed out
      lock_router_failed |-> Lock("smart_router", {"unlock_router_failed"}),
      unlock_router_failed |-> Unlock("smart_router", {"lock_traffic_failed"}),
      lock_traffic_failed |-> Lock("traffic_analyzer", {"unlock_traffic_failed"}),
      unlock_traffic_failed |-> Unlock("traffic_analyzer", {"write_status"}),
      write_status |-> Await({"end"}),
      end |-> End ]

\* ip_health_check_task
HealthSteps ==
    [ sleep |-> Await({"lock_snapshot"}),
      lock_snapshot |-> Lock("ip_manager", {"unlock_snapshot"}),
      unlock_snapshot |-> Unlock("ip_manager", {"connect", "sleep"}),
      connect |-> Await({"lock_record"}),
      lock_record |-> Lock("ip_manager", {"unlock_record"}),
      unlock_record |-> Unlock("ip_manager", {"connect", "sleep"}) ]

\* the detector taken once, before the loop
AnomalySteps_guard_kept ==
    [ sleep |-> Await({"lock_stats"}),
      lock_stats |-> Lock("traffic_analyzer", {"unlock_stats"}),
      unlock_stats |-> Unlock("traffic_analyzer", {"lock_detector"}),
      lock_detector |-> Lock("anomaly_detector", {"sleep"}),
      unlock_detector |-> Unlock("anomaly_detector", {"sleep"}) ]

\* anomaly_check_task
AnomalySteps ==
    [ sleep |-> Await({"lock_stats"}),
      lock_stats |-> Lock("traffic_analyzer", {"unlock_stats"}),
      unlock_stats |-> Unlock("traffic_analyzer", {"lock_detector"}),
      lock_detector |-> Lock("anomaly_detector", {"unlock_detector"}),
      unlock_detector |-> Unlock("anomaly_detector", {"sleep"}) ]

Tasks == {"socks5", "http", "health", "anomaly"}

Steps(t) ==
    CASE t = "socks5" -> Socks5Steps
      [] t = "http" -> HttpSteps
      [] t = "health" -> HealthSteps
      [] t = "anomaly" -> AnomalySteps

FirstStep(t) ==
    CASE t = "socks5" -> "read_greeting"
      [] t = "http" -> "read"
      [] t \in {"health", "anomaly"} -> "sleep"

StepOf(t) == Steps(t)[lock_tasks[t].pc]

\* the await of a task is over and the task runs on
Resume ==
    /\ \E t \in Tasks :
        /\ StepOf(t).op = "await"
        /\ \E n \in StepOf(t).next :
            lock_tasks' = [lock_tasks EXCEPT ![t].pc = n]
    /\ UNCHANGED <<mutex_owner, beyondLocks>>

\* .lock(): the thread waits until the mutex is free
Acquire ==
    /\ \E t \in Tasks :
        /\ StepOf(t).op = "lock"
        /\ mutex_owner[StepOf(t).on] = None
        /\ \E n \in StepOf(t).next :
            lock_tasks' = [lock_tasks EXCEPT ![t].pc = n,
                                             ![t].held = @ \cup {StepOf(t).on}]
        /\ mutex_owner' = [mutex_owner EXCEPT ![StepOf(t).on] = Some(t)]
    /\ UNCHANGED beyondLocks

\* the guard goes out of scope
Release ==
    /\ \E t \in Tasks :
        /\ StepOf(t).op = "unlock"
        /\ \E n \in StepOf(t).next :
            lock_tasks' = [lock_tasks EXCEPT ![t].pc = n,
                                             ![t].held = @ \ {StepOf(t).on}]
        /\ mutex_owner' = [mutex_owner EXCEPT ![StepOf(t).on] = None]
    /\ UNCHANGED beyondLocks

LocksInit ==
    /\ lock_tasks = [t \in Tasks |-> [pc |-> FirstStep(t), held |-> {}]]
    /\ mutex_owner = [m \in Mutexes |-> None]
    /\ PoolOf(<<>>) /\ strategy = "performance"
    /\ S5Off /\ HttpOff /\ AccOff /\ ServicesOff

LocksNext == Resume \/ Acquire \/ Release

SpecLocks == LocksInit /\ [][LocksNext]_vars

\* C10: a task that is at an await (socket I/O, dial, relay or sleep), or
\* that has ended, holds no component mutex; and a mutex is held by the task
\* that owns it
C10_NoLockAcrossAwait ==
    /\ \A t \in Tasks :
        StepOf(t).op \in {"await", "end"} => lock_tasks[t].held = {}
    /\ \A m \in Mutexes :
        mutex_owner[m] # None => m \in lock_tasks[mutex_owner[m][1]].held

\* the SOCKS5 handler is dialing, past its look at the pool, while the
\* health probe holds the pool and the anomaly check holds the detector
C10_Witness ==
    /\ lock_tasks["socks5"].pc = "dial"
    /\ mutex_owner["ip_manager"] = Some("health")
    /\ mutex_owner["anomaly_detector"] = Some("anomaly")
    /\ lock_tasks["http"].pc = "relay_forward"

(***************************************************************************)
(* AnomalyDetector.  Time is in seconds, a latency in milliseconds, an     *)
(* error rate in percent; a rate is an integer, and current > avg * k is   *)
(* compared as current * len > sum * k (the inputs below never meet the    *)
(* equality, where the f64 rounding could decide).                         *)
(* Instant::checked_sub returns None only when the cutoff would lie before *)
(* the clock's origin, where no sample can be older than it.               *)
(***************************************************************************)
ALERT_COOLDOWN == 30
HISTORY_WINDOW == 300
MAX_EVENT_HISTORY == 200

AnomalyTypes == {"TrafficSpike", "LatencySpike", "ErrorRateHigh", "ConnectionFlood"}

\* AnomalyDetectionConfig with the thresholds of Config::default
AnomalyDetectionConfig(enabled) ==
    [enabled |-> enabled, spike_threshold |-> 3, latency_threshold_ms |-> 5000,
     error_rate_threshold |-> 10, connection_threshold |-> 500]

AnomalyDetector_new(config) ==
    [config |-> config, request_rates |-> <<>>, latency_history |-> <<>>,
     error_rates |-> <<>>,
     last_alert |-> [t \in AnomalyTypes |-> None], event_history |-> <<>>]

DetectInput(rate, latency, error_rate, connections) ==
    [requests_per_second |-> rate, avg_latency |-> latency,
     error_rate |-> error_rate, active_connections |-> connections]

\* quiet, the spike of the scenario, and every figure over its threshold
QuietInput == DetectInput(10, 100, 1, 100)
SpikeInput == DetectInput(100, 100, 1, 100)
ExtremeInput == DetectInput(100, 6000, 50, 600)
DetectInputs == {QuietInput, SpikeInput, ExtremeInput}

\* the time since the previous detect call
Elapsed == {0, 29, 30, 271}

on_cooldown_never(d, t, anomaly_type) == FALSE

on_cooldown(d, t, anomaly_type) ==
    /\ d.last_alert[anomaly_type] # None
    /\ t - d.last_alert[anomaly_type][1] < ALERT_COOLDOWN

RECURSIVE pop_expired(_, _)
pop_expired(q, cutoff) ==
    IF q # <<>> /\ q[1].ts < cutoff THEN pop_expired(Tail(q), cutoff) ELSE q

cleanup(d, t) ==
    [d EXCEPT !.request_rates = pop_expired(@, t - HISTORY_WINDOW),
              !.latency_history = pop_expired(@, t - HISTORY_WINDOW),
              !.error_rates = pop_expired(@, t - HISTORY_WINDOW)]

RECURSIVE SumRates(_)
SumRates(q) == IF q = <<>> THEN 0 ELSE q[1].rate + SumRates(Tail(q))

Event(anomaly_type, t, severity) ==
    [anomaly_type |-> anomaly_type, timestamp |-> t, severity |-> severity]

\* a baseline of ten samples asked for
detect_spike_ten_samples(d, t, current_rate) ==
    IF on_cooldown(d, t, "TrafficSpike") THEN None
    ELSE IF Len(d.request_rates) < 10 THEN None
    ELSE LET sum == SumRates(d.request_rates)
             len == Len(d.request_rates)
         IN  IF current_rate * len > sum * d.config.spike_threshold
             THEN Some(Event("TrafficSpike", t,
                             IF current_rate * len > sum * d.config.spike_threshold * 2
                             THEN "High" ELSE "Medium"))
             ELSE None

detect_spike(d, t, current_rate) ==
    IF on_cooldown(d, t, "TrafficSpike") THEN None
    ELSE IF Len(d.request_rates) < 5 THEN None
    ELSE LET sum == SumRates(d.request_rates)
             len == Len(d.request_rates)
         IN  IF current_rate * len > sum * d.config.spike_threshold
             THEN Some(Event("TrafficSpike", t,
                             IF current_rate * len > sum * d.config.spike_threshold * 2
                             THEN "High" ELSE "Medium"))
             ELSE None

detect_latency(d, t, current_latency) ==
    IF on_cooldown(d, t, "LatencySpike") THEN None
    ELSE IF current_latency > d.config.latency_threshold_ms
    THEN Some(Event("LatencySpike", t, "Medium"))
    ELSE None

detect_error_rate(d, t, current_error_rate) ==
    IF on_cooldown(d, t, "ErrorRateHigh") THEN None
    ELSE IF current_error_rate > d.config.error_rate_threshold
    THEN Some(Event("ErrorRateHigh", t, "High"))
    ELSE None

detect_connection_flood(d, t, connections) ==
    IF on_cooldown(d, t, "ConnectionFlood") THEN None
    ELSE IF connections > d.config.connection_threshold
    THEN Some(Event("ConnectionFlood", t, "High"))
    ELSE None

RECURSIVE record_alerts(_, _, _)
record_alerts(last_alert, events, t) ==
    IF events = <<>> THEN last_alert
    ELSE record_alerts([last_alert EXCEPT ![events[1].anomaly_type] = Some(t)],
                       Tail(events), t)

\* the newest events dropped
cap_history_drop_newest(h) ==
    IF Len(h) > MAX_EVENT_HISTORY THEN SubSeq(h, 1, MAX_EVENT_HISTORY) ELSE h

RECURSIVE cap_history(_)
cap_history(h) == IF Len(h) > MAX_EVENT_HISTORY THEN cap_history(Tail(h)) ELSE h

\* the sample pushed before the checks run
detect_push_first(d, t, input) ==
    IF ~d.config.enabled THEN [detector |-> d, events |-> <<>>]
    ELSE LET d0 == cleanup(d, t)
             d1 == [d0 EXCEPT !.request_rates =
                                Append(@, [ts |-> t, rate |-> input.requests_per_second]),
                              !.latency_history =
                                Append(@, [ts |-> t, rate |-> input.avg_latency]),
                              !.error_rates =
                                Append(@, [ts |-> t, rate |-> input.error_rate])]
             events == detect_spike(d1, t, input.requests_per_second)
                        \o detect_latency(d1, t, input.avg_latency)
                        \o detect_error_rate(d1, t, input.error_rate)
                        \o detect_connection_flood(d1, t, input.active_connections)
         IN  [detector |->
                [d1 EXCEPT !.event_history = cap_history(@ \o events),
                           !.last_alert = record_alerts(@, events, t)],
              events |-> events]

\* the enabled flag not looked at
detect_always(d, t, input) ==
    LET d1 == cleanup(d, t)
        events == detect_spike(d1, t, input.requests_per_second)
                    \o detect_latency(d1, t, input.avg_latency)
                    \o detect_error_rate(d1, t, input.error_rate)
                    \o detect_connection_flood(d1, t, input.active_connections)
    IN  [detector |->
            [d1 EXCEPT !.request_rates =
                            Append(@, [ts |-> t, rate |-> input.requests_per_second]),
                       !.latency_history =
                            Append(@, [ts |-> t, rate |-> input.avg_latency]),
                       !.error_rates =
                            Append(@, [ts |-> t, rate |-> input.error_rate]),
                       !.event_history = cap_history(@ \o events),
                       !.last_alert = record_alerts(@, events, t)],
         events |-> events]

\* detect at time t: the detector it leaves and the events it returns
detect(d, t, input) ==
    IF ~d.config.enabled THEN [detector |-> d, events |-> <<>>]
    ELSE LET d1 == cleanup(d, t)
             events == detect_spike(d1, t, input.requests_per_second)
                        \o detect_latency(d1, t, input.avg_latency)
                        \o detect_error_rate(d1, t, input.error_rate)
                        \o detect_connection_flood(d1, t, input.active_connections)
         IN  [detector |->
                [d1 EXCEPT !.request_rates =
                                Append(@, [ts |-> t, rate |-> input.requests_per_second]),
                           !.latency_history =
                                Append(@, [ts |-> t, rate |-> input.avg_latency]),
                           !.error_rates =
                                Append(@, [ts |-> t, rate |-> input.error_rate]),
                           !.event_history = cap_history(@ \o events),
                           !.last_alert = record_alerts(@, events, t)],
              events |-> events]

\* one tick of the anomaly check: the call, made some time after the last
Detect ==
    /\ Len(detect_calls) < MaxDetects
    /\ \E dt \in Elapsed, input \in DetectInputs :
        LET t == now + dt
            r == detect(detector, t, input)
            before == cleanup(detector, t).request_rates
        IN  /\ now' = t
            /\ detector' = r.detector
            /\ detect_calls' = Append(detect_calls,
                    [ts |-> t, input |-> input, samples |-> Len(before),
                     sum |-> SumRates(before), events |-> r.events])
    /\ UNCHANGED beyondAnomaly

\* a detector that has been fed n quiet samples at time 0
AnomalyInit ==
    /\ now = 0
    /\ \E enabled \in BOOLEAN, n \in 0..MaxBaseline :
        detector = [AnomalyDetector_new(AnomalyDetectionConfig(enabled))
                        EXCEPT !.request_rates =
                            IF enabled THEN [i \in 1..n |-> [ts |-> 0, rate |-> 10]]
                            ELSE <<>>,
                               !.latency_history =
                            IF enabled THEN [i \in 1..n |-> [ts |-> 0, rate |-> 100]]
                            ELSE <<>>,
                               !.error_rates =
                            IF enabled THEN [i \in 1..n |-> [ts |-> 0, rate |-> 1]]
                            ELSE <<>>]
    /\ detect_calls = <<>>
    /\ PoolOf(<<>>) /\ strategy = "performance"
    /\ S5Off /\ HttpOff /\ AccOff /\ LocksOff
    /\ MonitorOff /\ AnalyzerOff /\ ProcOff /\ ApiOff /\ RouterOff

AnomalyNext == Detect

SpecAnomaly == AnomalyInit /\ [][AnomalyNext]_vars

\* the events of one type that a detect call returned
EventsOf(call, anomaly_type) ==
    SelectSeq(call.events, LAMBDA e : e.anomaly_type = anomaly_type)

\* C11: for each anomaly type, a detect call returns at most one event of
\* the type, and two calls that both return one are at least ALERT_COOLDOWN
\* (30 s) apart; so of two calls less than 30 s apart at most one does
C11_CooldownBetweenEvents ==
    \A anomaly_type \in AnomalyTypes :
        \A i, j \in 1..Len(detect_calls) :
            /\ Len(EventsOf(detect_calls[i], anomaly_type)) <= 1
            /\ (/\ i < j
                /\ EventsOf(detect_calls[i], anomaly_type) # <<>>
                /\ EventsOf(detect_calls[j], anomaly_type) # <<>>) =>
                    detect_calls[j].ts - detect_calls[i].ts >= ALERT_COOLDOWN

\* two calls 29 s apart with every figure over its threshold: the first
\* returned a ConnectionFlood and the second none
C11_Witness ==
    /\ Len(detect_calls) >= 2
    /\ detect_calls[1].input = ExtremeInput
    /\ detect_calls[2].input = ExtremeInput
    /\ detect_calls[2].ts - detect_calls[1].ts = 29
    /\ EventsOf(detect_calls[1], "ConnectionFlood") # <<>>
    /\ EventsOf(detect_calls[2], "ConnectionFlood") = <<>>

\* calls i, i+1 and i+2 are detect(100, 100 ms, 0.01, 100) with
\* spike_threshold 3: the first finds a baseline of at least `least` samples
\* averaging 10, the second is made at once, the third when the cooldown of
\* the first has elapsed
SpikeScenario(i, least) ==
    /\ Len(detect_calls) >= i + 2
    /\ detector.config.enabled
    /\ \A k \in i..(i + 2) : detect_calls[k].input = SpikeInput
    /\ detect_calls[i].samples >= least
    /\ detect_calls[i].sum = 10 * detect_calls[i].samples
    /\ detect_calls[i + 1].ts = detect_calls[i].ts
    /\ detect_calls[i + 2].ts - detect_calls[i].ts >= ALERT_COOLDOWN

SpikeThenQuiet(i) ==
    /\ Len(EventsOf(detect_calls[i], "TrafficSpike")) = 1
    /\ EventsOf(detect_calls[i], "TrafficSpike")[1].severity = "High"
    /\ EventsOf(detect_calls[i + 1], "TrafficSpike") = <<>>

\* C12: with a baseline of at least 5 samples averaging 10, the first call
\* returns a TrafficSpike of severity High, the repeated call none, and the
\* call after the cooldown a TrafficSpike again
C12_SpikeAgainAfterCooldown ==
    \A i \in 1..MaxDetects :
        SpikeScenario(i, 5) =>
            /\ SpikeThenQuiet(i)
            /\ EventsOf(detect_calls[i + 2], "TrafficSpike") # <<>>

\* C12 with a baseline of at least 6 samples, all of them still in the
\* history window at the third call (which finds them and the two samples
\* the first two calls pushed)
C12_SpikeAgainWithSixSamples ==
    \A i \in 1..MaxDetects :
        (/\ SpikeScenario(i, 6)
         /\ detect_calls[i + 2].samples = detect_calls[i].samples + 2) =>
            /\ SpikeThenQuiet(i)
            /\ EventsOf(detect_calls[i + 2], "TrafficSpike") # <<>>

\* the scenario run from a baseline of six samples, 30 s between the first
\* call and the third, which returned a TrafficSpike
C12_Witness ==
    /\ SpikeScenario(1, 6)
    /\ detect_calls[1].samples = 6
    /\ detect_calls[3].samples = 8
    /\ detect_calls[3].ts - detect_calls[1].ts = 30
    /\ EventsOf(detect_calls[3], "TrafficSpike") # <<>>

(***************************************************************************)
(* BehaviorMonitor.  A record is [timestamp, action_type, success]; its    *)
(* duration and target are stored and never read.  A pattern keeps         *)
(* success_count in place of the f64 success_rate = success_count /        *)
(* total_actions.  monitor.last is the call made last, with the session's  *)
(* list as the call found it.                                              *)
(***************************************************************************)
SESSION_TIMEOUT == 1800
MAX_ACTIONS_PER_SESSION == 1000
MAX_PATTERNS == 10000

Sessions == {"s1", "s2"}

BehaviorRecord(t, action_type, success) ==
    [timestamp |-> t, action_type |-> action_type, success |-> success]

\* what is recorded: a Connect that succeeded, a Request that failed
Actions == {[action_type |-> "Connect", success |-> TRUE],
            [action_type |-> "Request", success |-> FALSE]}

\* the time between one call and the next
MonitorElapsed == {0, SESSION_TIMEOUT, SESSION_TIMEOUT + 1}

BehaviorMonitor_new(session_timeout) ==
    [active_sessions |-> << >>, patterns |-> << >>,
     session_timeout |-> session_timeout,
     max_actions_per_session |-> MAX_ACTIONS_PER_SESSION,
     calls |-> 0, last |-> [op |-> "new"]]

\* Instant::duration_since: zero when the other instant is later
duration_since(t, earlier) == IF t >= earlier THEN t - earlier ELSE 0


save_pattern(patterns, session_id, actions) ==
    IF actions = <<>> THEN patterns
    ELSE LET first == actions[1]
             last == actions[Len(actions)]
         IN  MapInsert(patterns, session_id,
                [session_id |-> session_id,
                 start_time |-> first.timestamp,
                 total_actions |-> Len(actions),
                 action_distribution |->
                    [a \in {actions[i].action_type : i \in 1..Len(actions)} |->
                        Cardinality({i \in 1..Len(actions) : actions[i].action_type = a})],
                 total_duration |-> duration_since(last.timestamp, first.timestamp),
                 success_count |-> Cardinality({i \in 1..Len(actions) : actions[i].success}),
                 last_activity |-> last.timestamp])

\* the pattern is saved after the new record has joined the list
record_action_push_first(m, session_id, action) ==
    LET found == session_id \in DOMAIN m.active_sessions
        actions == IF found THEN m.active_sessions[session_id] ELSE <<>>
        should_finalize ==
            /\ found
            /\ \/ Len(actions) >= m.max_actions_per_session
               \/ /\ actions # <<>>
                  /\ duration_since(action.timestamp, actions[Len(actions)].timestamp)
                        > m.session_timeout
    IN  IF should_finalize
        THEN [m EXCEPT !.patterns = save_pattern(@, session_id, Append(actions, action)),
                       !.active_sessions = MapInsert(@, session_id, <<action>>)]
        ELSE [m EXCEPT !.active_sessions =
                            MapInsert(@, session_id, Append(actions, action))]

record_action(m, session_id, action) ==
    LET found == session_id \in DOMAIN m.active_sessions
        actions == IF found THEN m.active_sessions[session_id] ELSE <<>>
        should_finalize ==
            /\ found
            /\ \/ Len(actions) >= m.max_actions_per_session
               \/ /\ actions # <<>>
                  /\ duration_since(action.timestamp, actions[Len(actions)].timestamp)
                        > m.session_timeout
    IN  IF should_finalize
        THEN [m EXCEPT !.patterns = save_pattern(@, session_id, actions),
                       !.active_sessions = MapInsert(@, session_id, <<action>>)]
        ELSE [m EXCEPT !.active_sessions =
                            MapInsert(@, session_id, Append(actions, action))]

\* the sessions idle for longer than session_timeout, and the empty ones
stale_keys(m, t) ==
    {k \in DOMAIN m.active_sessions :
        \/ m.active_sessions[k] = <<>>
        \/ duration_since(t, m.active_sessions[k][Len(m.active_sessions[k])].timestamp)
                > m.session_timeout}

RECURSIVE save_patterns(_, _, _)
save_patterns(patterns, sessions, keys) ==
    IF keys = {} THEN patterns
    ELSE LET k == CHOOSE k \in keys : TRUE
         IN  save_patterns(save_pattern(patterns, k, sessions[k]), sessions, keys \ {k})

\* the patterns left by the cap: the remove_count oldest by last_activity go
capped_patterns(patterns) ==
    IF Cardinality(DOMAIN patterns) <= MAX_PATTERNS THEN {patterns}
    ELSE LET remove_count == Cardinality(DOMAIN patterns) - MAX_PATTERNS
         IN  {[k \in DOMAIN patterns \ R |-> patterns[k]] :
                R \in {R \in SUBSET DOMAIN patterns :
                        /\ Cardinality(R) = remove_count
                        /\ \A r \in R, k \in DOMAIN patterns \ R :
                            patterns[r].last_activity <= patterns[k].last_activity}}

cleanup_stale_sessions(m, t) ==
    LET stale == stale_keys(m, t)
        saved == save_patterns(m.patterns, m.active_sessions, stale)
    IN  {[m EXCEPT !.active_sessions = [k \in DOMAIN @ \ stale |-> @[k]],
                   !.patterns = p] : p \in capped_patterns(saved)}

RecordAction ==
    /\ monitor.calls < MaxMonitorCalls
    /\ \E session_id \in Sessions, dt \in MonitorElapsed, a \in Actions :
        LET action == BehaviorRecord(now + dt, a.action_type, a.success)
            before == IF session_id \in DOMAIN monitor.active_sessions
                      THEN Some(monitor.active_sessions[session_id]) ELSE None
        IN  /\ now' = now + dt
            /\ monitor' = [record_action(monitor, session_id, action) EXCEPT
                                !.calls = @ + 1,
                                !.last = [op |-> "record_action",
                                          session_id |-> session_id,
                                          action |-> action, before |-> before]]
    /\ UNCHANGED <<callers, beyondMonitor>>

CleanupStaleSessions ==
    /\ monitor.calls < MaxMonitorCalls
    /\ \E dt \in MonitorElapsed :
        /\ now' = now + dt
        /\ \E m \in cleanup_stale_sessions(monitor, now + dt) :
            monitor' = [m EXCEPT !.calls = @ + 1,
                                 !.last = [op |-> "cleanup_stale_sessions"]]
    /\ UNCHANGED <<callers, beyondMonitor>>

\* a monitor whose session s1 has been fed n records at time 0
MonitorInit ==
    /\ now = 0
    /\ \E n \in {0, 1, MaxPreloaded} :
        monitor = [BehaviorMonitor_new(SESSION_TIMEOUT) EXCEPT
                        !.active_sessions =
                            IF n = 0 THEN << >>
                            ELSE [k \in {"s1"} |->
                                    [i \in 1..n |-> BehaviorRecord(0, "Connect", TRUE)]]]
    /\ callers = "off"
    /\ PoolOf(<<>>) /\ strategy = "performance"
    /\ S5Off /\ HttpOff /\ AccOff /\ LocksOff
    /\ AnomalyOff /\ AnalyzerOff /\ ProcOff /\ ApiOff /\ RouterOff

MonitorNext == RecordAction \/ CleanupStaleSessions

SpecMonitor == MonitorInit /\ [][MonitorNext]_vars

\* the call made last was a record_action that found its session due for
\* finalization: full, or idle for longer than session_timeout
Finalized ==
    /\ monitor.last.op = "record_action"
    /\ monitor.last.before # None
    /\ LET actions == monitor.last.before[1]
       IN  /\ actions # <<>>
           /\ \/ Len(actions) >= MAX_ACTIONS_PER_SESSION
              \/ monitor.last.action.timestamp - actions[Len(actions)].timestamp
                    > SESSION_TIMEOUT

\* C13: when record_action finalizes a session, the pattern it saves counts
\* the records fed before the triggering one, and the triggering record is
\* the only record of the session's new list.
C13_FinalizeBeforePush ==
    Finalized =>
        LET sid == monitor.last.session_id
        IN  /\ sid \in DOMAIN monitor.patterns
            /\ monitor.patterns[sid].total_actions = Len(monitor.last.before[1])
            /\ monitor.patterns[sid].last_activity
                    = monitor.last.before[1][Len(monitor.last.before[1])].timestamp
            /\ monitor.active_sessions[sid] = <<monitor.last.action>>

\* a full session of 1000 records was finalized by its 1001st
C13_Witness ==
    /\ Finalized
    /\ Len(monitor.last.before[1]) = MAX_ACTIONS_PER_SESSION
    /\ monitor.patterns[monitor.last.session_id].total_actions = MAX_ACTIONS_PER_SESSION

(***************************************************************************)
(* TrafficAnalyzer.  Timestamps are seconds, latencies milliseconds.  The  *)
(* f64 rates are kept as the two integers of their quotient.  A request's  *)
(* protocol tag is stored and never read.                                  *)
(***************************************************************************)
WINDOW_SIZE == 60
ERROR_LATENCY_MS == 10000

Ratio(num, den) == [num |-> num, den |-> den]

TrafficStats_default ==
    [total_requests |-> 0, total_bytes_in |-> 0, total_bytes_out |-> 0,
     active_connections |-> 0,
     requests_per_second |-> Ratio(0, 1), bytes_per_second |-> Ratio(0, 1),
     avg_latency |-> 0, p50_latency |-> 0, p95_latency |-> 0, p99_latency |-> 0,
     error_count |-> 0, error_rate |-> Ratio(0, 1)]

RequestInfo(timestamp, size, latency) ==
    [timestamp |-> timestamp, size |-> size, latency |-> latency]

ByteSample(timestamp, bytes, is_in) ==
    [timestamp |-> timestamp, bytes |-> bytes, is_in |-> is_in]

TrafficAnalyzer_new(window_size) ==
    [request_history |-> << >>, byte_history |-> << >>,
     window_size |-> window_size, current_stats |-> TrafficStats_default,
     records |-> 0, last |-> "new"]

\* the first index in lo..hi whose entry is not older than the cutoff, hi + 1
\* where every entry is older
RECURSIVE first_kept(_, _, _, _)
first_kept(history, cutoff, lo, hi) ==
    IF lo > hi THEN lo
    ELSE IF lo = hi THEN (IF history[lo].timestamp < cutoff THEN lo + 1 ELSE lo)
    ELSE LET mid == (lo + hi) \div 2
             left == first_kept(history, cutoff, lo, mid)
         IN  IF left <= mid THEN left ELSE first_kept(history, cutoff, mid + 1, hi)

\* VecDeque::pop_front while the front is older than the cutoff
pop_older(history, cutoff) ==
    SubSeq(history, first_kept(history, cutoff, 1, Len(history)), Len(history))

cleanup_expired(a, t) ==
    LET cutoff == t - a.window_size
    IN  [a EXCEPT !.request_history = pop_older(@, cutoff),
                  !.byte_history = pop_older(@, cutoff)]

\* the sum of a field over samples[lo..hi], by halves
RECURSIVE SumRange(_, _, _, _)
SumRange(samples, field, lo, hi) ==
    IF lo > hi THEN 0
    ELSE IF lo = hi THEN samples[lo][field]
    ELSE LET mid == (lo + hi) \div 2
         IN  SumRange(samples, field, lo, mid) + SumRange(samples, field, mid + 1, hi)

SumOf(samples, field) == SumRange(samples, field, 1, Len(samples))

\* the percentile index is 0-based in the code: latencies[k] is the (k+1)-th
percentile_at(latencies, k) == latencies[k + 1]

update_stats(a, t) ==
    IF a.request_history = <<>> THEN a
    ELSE
    LET recent_requests ==
            SelectSeq(a.request_history,
                      LAMBDA r : duration_since(t, r.timestamp) < a.window_size)
        total_requests == Len(recent_requests)
        latencies == SortSeq([i \in 1..total_requests |-> recent_requests[i].latency],
                             LAMBDA x, y : x < y)
        n_lat == Len(latencies)
        errors == Len(SelectSeq(recent_requests, LAMBDA r : r.latency > ERROR_LATENCY_MS))
    IN  IF recent_requests = <<>> THEN a
        ELSE [a EXCEPT !.current_stats =
            [@ EXCEPT !.total_requests = total_requests,
                      !.total_bytes_in =
                            SumOf(SelectSeq(a.byte_history, LAMBDA b : b.is_in), "bytes"),
                      !.total_bytes_out =
                            SumOf(SelectSeq(a.byte_history, LAMBDA b : ~b.is_in), "bytes"),
                      !.requests_per_second = Ratio(total_requests, a.window_size),
                      !.bytes_per_second =
                            Ratio(SumOf(recent_requests, "size"), a.window_size),
                      !.avg_latency = SumOf(recent_requests, "latency") \div total_requests,
                      !.p50_latency = percentile_at(latencies, (n_lat * 50) \div 100),
                      !.p95_latency = IF n_lat >= 20
                                      THEN percentile_at(latencies, (n_lat * 95) \div 100)
                                      ELSE latencies[n_lat],
                      !.p99_latency = IF n_lat >= 100
                                      THEN percentile_at(latencies, (n_lat * 99) \div 100)
                                      ELSE latencies[n_lat],
                      !.error_count = errors,
                      !.error_rate = Ratio(errors, total_requests)]]

record_request(a, t, request) ==
    update_stats(cleanup_expired([a EXCEPT !.request_history = Append(@, request)], t), t)

record_bytes(a, t, bytes_in, bytes_out) ==
    update_stats(
        cleanup_expired(
            [a EXCEPT !.byte_history = @ \o <<ByteSample(t, bytes_in, TRUE),
                                              ByteSample(t, bytes_out, FALSE)>>], t), t)

\* the time between one call and the next
AnalyzerElapsed == {0, WINDOW_SIZE, WINDOW_SIZE + 1}
\* how long before the call the connection was accepted: start_time
Ages == {0, 5}
\* a connect latency under the error mark, and one over it
ConnectLatencies == {100, ERROR_LATENCY_MS + 1}

RecordRequest ==
    /\ analyzer.records < MaxRecords
    /\ \E dt \in AnalyzerElapsed, age \in Ages, latency \in ConnectLatencies :
        /\ now' = now + dt
        /\ analyzer' = [record_request(analyzer, now + dt,
                                       RequestInfo(now + dt - age, 64, latency))
                            EXCEPT !.records = @ + 1, !.last = "record_request"]
    /\ UNCHANGED beyondAnalyzer

RecordBytes ==
    /\ analyzer.records < MaxRecords
    /\ \E dt \in AnalyzerElapsed :
        /\ now' = now + dt
        /\ analyzer' = [record_bytes(analyzer, now + dt, 2048, 1024)
                            EXCEPT !.records = @ + 1, !.last = "record_bytes"]
    /\ UNCHANGED beyondAnalyzer

\* an analyzer fed, at second 10, n requests with latencies 1, 2, ..., n ms
AnalyzerInit ==
    /\ now = 10
    /\ \E n \in {0, 19, MaxWindowed} :
        analyzer = update_stats(
                        [TrafficAnalyzer_new(WINDOW_SIZE) EXCEPT
                            !.request_history = [i \in 1..n |-> RequestInfo(10, 64, i)],
                            !.last = IF n = 0 THEN "new" ELSE "record_request"], 10)
    /\ PoolOf(<<>>) /\ strategy = "performance"
    /\ S5Off /\ HttpOff /\ AccOff /\ LocksOff
    /\ AnomalyOff /\ MonitorOff /\ ProcOff /\ ApiOff /\ RouterOff

AnalyzerNext == RecordRequest \/ RecordBytes

SpecAnalyzer == AnalyzerInit /\ [][AnalyzerNext]_vars

\* the samples of a history that have not left the window at the time of
\* the call made last
InWindow(history) ==
    SelectSeq(history, LAMBDA x : now - x.timestamp <= WINDOW_SIZE)

\* C14: right after record_request or record_bytes returns, the cached
\* statistics count no sample that has left the window: the request count,
\* the error count, the request bytes and both byte sums are covered by the
\* samples not older than now - W, also when every earlier sample expired.
C14_StatsFromWindowOnly ==
    analyzer.last \in {"record_request", "record_bytes"} =>
        LET requests == InWindow(analyzer.request_history)
            bytes == InWindow(analyzer.byte_history)
            stats == analyzer.current_stats
        IN  /\ stats.total_requests <= Len(requests)
            /\ stats.requests_per_second.num <= Len(requests)
            /\ stats.bytes_per_second.num <= SumOf(requests, "size")
            /\ stats.error_count <=
                    Len(SelectSeq(requests, LAMBDA r : r.latency > ERROR_LATENCY_MS))
            /\ stats.total_bytes_in <= SumOf(SelectSeq(bytes, LAMBDA b : b.is_in), "bytes")
            /\ stats.total_bytes_out <= SumOf(SelectSeq(bytes, LAMBDA b : ~b.is_in), "bytes")

\* the window holds 100 requests whose latencies are 1, 2, ..., 100 ms
HundredRequests ==
    /\ analyzer.last = "record_request"
    /\ Len(analyzer.request_history) = 100
    /\ InWindow(analyzer.request_history) = analyzer.request_history
    /\ \A i \in 1..100 : analyzer.request_history[i].latency = i

\* C15: after 100 requests with latencies 1..100 ms inside the window, the
\* statistics report p50 = 50 ms, p95 = 95 ms and p99 = 99 ms.
C15_PercentilesOfHundred ==
    HundredRequests =>
        /\ analyzer.current_stats.p50_latency = 50
        /\ analyzer.current_stats.p95_latency = 95
        /\ analyzer.current_stats.p99_latency = 99

(***************************************************************************)
(* prepare_forward_request.  The request text is its request line (the     *)
(* words split_whitespace finds) and the lines that "\r\n" separates after *)
(* it: the header lines, the blank line, the lines of the body.  A text    *)
(* that ends in "\r\n\r\n" ends in two empty lines.  A line without a      *)
(* colon is a Line whose name is the whole line.                           *)
(***************************************************************************)
ConnectionClose == Line("Connection", "close", <<>>)

ForwardLines ==
    {HostLine, Line("Accept", "", <<>>),
     Line("Proxy-Authorization", "Basic ", B64_u_p),
     Line("proxy-authorization", "basic ", B64_u_p),
     Line("Connection", "keep-alive", <<>>),
     Line("CONNECTION", "close", <<>>)}

ForwardHeaderSections ==
    {<<>>} \cup {<<l>> : l \in ForwardLines}
           \cup {<<l, m>> : l \in ForwardLines, m \in ForwardLines}

\* what a client sends for plain forwarding; version None: a request line of
\* two words
ForwardRequests ==
    [method : {"GET", "POST"}, target : {"http://x/p"},
     version : {None, Some("HTTP/1.1"), Some("HTTP/1.0")},
     headers : ForwardHeaderSections,
     body : {<<>>, <<Line("data", "", <<>>)>>}]

\* request[i + 2..] for the first "\r\n" at i
after_first(request) ==
    request.headers \o <<Blank>> \o (IF request.body = <<>> THEN <<Blank>> ELSE request.body)

\* after_first.find("\r\n\r\n"): an empty line between two separators; None
\* where there is none
find_blank(after) ==
    LET at == {k \in 2..(Len(after) - 1) : after[k] = Blank}
    IN  IF at = {} THEN None ELSE Some(CHOOSE k \in at : \A j \in at : k <= j)

\* the filter of the header lines
keeps_line(l) ==
    /\ l # Blank
    /\ to_lowercase(l.name) # "proxy-authorization"
    /\ to_lowercase(l.name) # "connection"

\* the text it returns: the request line, and the lines after it
prepare_forward_request(request, rewrite_path) ==
    LET new_first_line ==
            IF rewrite_path # None
            THEN <<request.method, rewrite_path[1],
                   IF request.version = None THEN "HTTP/1.1" ELSE request.version[1]>>
            ELSE <<request.method, request.target>> \o request.version
        after == after_first(request)
        i == find_blank(after)
        headers_raw == IF i = None THEN after ELSE SubSeq(after, 1, i[1] - 1)
        body == IF i = None THEN <<Blank>> ELSE SubSeq(after, i[1] + 1, Len(after))
        filtered == SelectSeq(headers_raw, keeps_line)
    IN  [first_line |-> new_first_line,
         rest |-> filtered \o <<ConnectionClose, Blank>> \o body]

\* the plain-forwarding branch up to the text it will write upstream
PrepareForward ==
    /\ http.pc = "prepare"
    /\ http' = [http EXCEPT
                    !.pc = "prepared",
                    !.forwarded = Some(prepare_forward_request(http.request,
                                                               http.rewrite_path))]
    /\ UNCHANGED beyondHttp

ForwardInit ==
    /\ PoolOf(<<>>) /\ strategy = "performance"
    /\ http_config = "off"
    /\ \E request \in ForwardRequests, rewrite_path \in {None, Some("/p")} :
        http = [pc |-> "prepare", request |-> request,
                rewrite_path |-> rewrite_path, forwarded |-> None]
    /\ S5Off /\ AccOff /\ LocksOff /\ ServicesOff

ForwardNext == PrepareForward

SpecForward == ForwardInit /\ [][ForwardNext]_vars

\* the header section of a forwarded text: its lines up to the first empty
\* line; and the body after that line
HeaderSectionOf(text) ==
    LET k == CHOOSE k \in 1..Len(text.rest) :
                text.rest[k] = Blank /\ \A j \in 1..(k - 1) : text.rest[j] # Blank
    IN  SubSeq(text.rest, 1, k - 1)

BodyOf(text) ==
    LET k == Len(HeaderSectionOf(text)) + 1
        after == SubSeq(text.rest, k + 1, Len(text.rest))
    IN  IF after = <<Blank>> THEN <<>> ELSE after

IsConnectionLine(l) == to_lowercase(l.name) = "connection"

\* C16: prepare_forward_request(request, Some(p)) yields the first line
\* `METHOD p HTTP/1.1` with the request's method, no Proxy-Authorization
\* header and no Connection header of the client, exactly one
\* `Connection: close`, every other header in its order, and the body
\* unchanged.
C16_ForwardedRequest ==
    (http.pc = "prepared" /\ http.rewrite_path # None) =>
        LET request == http.request
            text == http.forwarded[1]
            headers == HeaderSectionOf(text)
        IN  /\ text.first_line = <<request.method, http.rewrite_path[1], "HTTP/1.1">>
            /\ SelectSeq(headers, IsAuthLine) = <<>>
            /\ SelectSeq(headers, IsConnectionLine) = <<ConnectionClose>>
            /\ SelectSeq(headers, LAMBDA l : ~IsConnectionLine(l))
                    = SelectSeq(request.headers,
                                LAMBDA l : ~IsAuthLine(l) /\ ~IsConnectionLine(l))
            /\ BodyOf(text) = request.body

(***************************************************************************)
(* Claims about the forward dial of the handlers.                          *)
(***************************************************************************)
\* the task has ended after a forward dial that failed
DialFailed(t) == t.pc = "done" /\ t.outcome # None /\ t.outcome[1] # "Ok"

\* the task recorded a failure to the component
RecordedFailure(t, to) ==
    \E i \in 1..Len(t.log) : t.log[i].to = to /\ ~t.log[i].success

\* C17: a handler that ends after a failed forward dial (SOCKS5, HTTP
\* CONNECT, HTTP plain forwarding) has recorded success = false to the
\* Smart Router, to the Traffic Analyzer and, when the dial went to an
\* upstream node, to the Node Pool.
C17_FailedDialRecorded ==
    /\ DialFailed(s5) =>
            /\ RecordedFailure(s5, "smart_router")
            /\ RecordedFailure(s5, "traffic_analyzer")
            /\ get_proxy_endpoint # None => RecordedFailure(s5, "ip_manager")
    /\ DialFailed(http) =>
            /\ RecordedFailure(http, "smart_router")
            /\ RecordedFailure(http, "traffic_analyzer")
            /\ get_proxy_endpoint # None => RecordedFailure(http, "ip_manager")

\* the CONNECT reply frames the task wrote to the client
ReplyFrames == SelectSeq(s5.sent, LAMBDA frame : Len(frame) = 10)

\* C18: a SOCKS5 forward dial that timed out is answered REP 0x04, a refused
\* one REP 0x05, directly or through an upstream node, and a deviation of
\* the nested handshake REP 0x01: one failure frame and no success frame
\* (where the client socket still takes the reply).
C18_DialFailureReplies ==
    (DialFailed(s5) /\ ~s5.io_err) =>
        /\ s5.outcome[1] = "Elapsed" => ReplyFrames = <<socks5_reply(4)>>
        /\ s5.outcome[1] = "Refused" => ReplyFrames = <<socks5_reply(5)>>
        /\ s5.outcome[1] = "Deviation" => ReplyFrames = <<socks5_reply(1)>>

\* the request failed authentication: auth is enabled and the header section
\* holds no Proxy-Authorization header with the configured credentials
AuthFailed == http_config.auth_enabled /\ ~HeaderValid(http_config, http.request[1])

\* neither a CONNECT with a parseable target nor a request for an absolute URL
Unparseable ==
    IF http.request[1].method = "CONNECT"
    THEN parse_connect_target(http.request[1].target) = None
    ELSE parse_http_url(http.request[1].target) = None

\* C19: a request that was read is answered, while the client socket takes
\* the write, with at most one status of the proxy, the one of its
\* outcome: 407 on failed auth, else 400 when it is neither a parseable
\* CONNECT nor a parseable absolute-URL request, else 504 when the dial
\* timed out, 502 when it failed, and 200 for a CONNECT whose dial
\* succeeded and for nothing else.
C19_OneStatusPerOutcome ==
    (http.pc \in {"relay", "done"} /\ http.request # None /\ ~http.io_err) =>
        /\ Len(http.sent) <= 1
        /\ AuthFailed => http.sent = <<"407">>
        /\ (~AuthFailed /\ Unparseable) => http.sent = <<"400">>
        /\ (~AuthFailed /\ ~Unparseable) =>
            /\ http.outcome = Some("Elapsed") => http.sent = <<"504">>
            /\ http.outcome = Some("Refused") => http.sent = <<"502">>
            /\ (http.outcome = Some("Ok") /\ http.dial[1].mode = "CONNECT")
                    => http.sent = <<"200">>
        /\ "200" \in {http.sent[i] : i \in 1..Len(http.sent)} =>
                /\ http.dial # None /\ http.dial[1].mode = "CONNECT"
                /\ http.outcome = Some("Ok")
                /\ ~AuthFailed

(***************************************************************************)
(* The process: main, the two listener tasks it spawns and the API task.   *)
(* A listener task is "spawned" until start() has tried to bind, then      *)
(* "listening" (the accept loop never returns) or "finished" (start()      *)
(* returned the bind error, the task printed it and ended).  The API task  *)
(* serves for as long as the process lives.                                *)
(***************************************************************************)
\* health_check, anomaly_check: the interval of the periodic task is above 0
ProcConfigs ==
    [socks5_enabled : BOOLEAN, http_enabled : BOOLEAN,
     health_check : BOOLEAN, anomaly_check : BOOLEAN]

Process_new(config) ==
    [pc |-> "load", config |-> config, background |-> {},
     socks5_task |-> None, http_task |-> None, api_task |-> None,
     bind_failed |-> {}, signal |-> FALSE, exit_code |-> None, cause |-> "none"]

\* main returns Err (the runtime prints it and the exit code is 1) or Ok
exit(p, code, cause) ==
    [p EXCEPT !.pc = "exited", !.exit_code = Some(code), !.cause = cause]

\* Logger::new(..)? and load_or_default().await?
LoadConfig ==
    /\ proc.pc = "load"
    /\ \E ok \in BOOLEAN :
        proc' = IF ok THEN [proc EXCEPT !.pc = "spawn_background"]
                ELSE exit(proc, 1, "load")
    /\ UNCHANGED beyondProc

\* the periodic tasks: health probe, anomaly check, session sweep
SpawnBackground ==
    /\ proc.pc = "spawn_background"
    /\ proc' = [proc EXCEPT
                    !.pc = "spawn_socks5",
                    !.background =
                        (IF proc.config.health_check THEN {"ip_health_check_task"} ELSE {})
                        \cup (IF proc.config.anomaly_check THEN {"anomaly_check_task"} ELSE {})
                        \cup {"session_cleanup"}]
    /\ UNCHANGED beyondProc

SpawnSocks5 ==
    /\ proc.pc = "spawn_socks5"
    /\ proc' = [proc EXCEPT !.pc = "spawn_http",
                            !.socks5_task = IF proc.config.socks5_enabled
                                            THEN Some("spawned") ELSE None]
    /\ UNCHANGED beyondProc

SpawnHttp ==
    /\ proc.pc = "spawn_http"
    /\ proc' = [proc EXCEPT !.pc = "bind_api",
                            !.http_task = IF proc.config.http_enabled
                                          THEN Some("spawned") ELSE None]
    /\ UNCHANGED beyondProc

\* TcpListener::bind(api_addr).await? and the spawn of the API task
BindApi ==
    /\ proc.pc = "bind_api"
    /\ \E ok \in BOOLEAN :
        proc' = IF ok THEN [proc EXCEPT !.pc = "select", !.api_task = Some("serving")]
                ELSE exit(proc, 1, "api_bind")
    /\ UNCHANGED beyondProc

\* the spawned task runs start(): the bind, and on Err the eprintln
Socks5Start ==
    /\ proc.pc # "exited"
    /\ proc.socks5_task = Some("spawned")
    /\ \E bound \in BOOLEAN :
        proc' = IF bound THEN [proc EXCEPT !.socks5_task = Some("listening")]
                ELSE [proc EXCEPT !.socks5_task = Some("finished"),
                                  !.bind_failed = @ \cup {"socks5"}]
    /\ UNCHANGED beyondProc

HttpStart ==
    /\ proc.pc # "exited"
    /\ proc.http_task = Some("spawned")
    /\ \E bound \in BOOLEAN :
        proc' = IF bound THEN [proc EXCEPT !.http_task = Some("listening")]
                ELSE [proc EXCEPT !.http_task = Some("finished"),
                                  !.bind_failed = @ \cup {"http"}]
    /\ UNCHANGED beyondProc

\* the shutdown signal, once select! has made tokio::signal::ctrl_c() listen
CtrlC ==
    /\ proc.pc = "select"
    /\ ~proc.signal
    /\ proc' = [proc EXCEPT !.signal = TRUE]
    /\ UNCHANGED beyondProc

\* the branches of tokio::select! that are ready
ready_branches(p) ==
    (IF p.signal THEN {"ctrl_c"} ELSE {})
        \cup (IF p.socks5_task = Some("finished") THEN {"socks5_wait"} ELSE {})
        \cup (IF p.http_task = Some("finished") THEN {"http_wait"} ELSE {})
        \cup (IF p.api_task = Some("finished") THEN {"api_task"} ELSE {})

\* select! takes one ready branch, logs, and main returns Ok(())
Select ==
    /\ proc.pc = "select"
    /\ \E branch \in ready_branches(proc) : proc' = exit(proc, 0, branch)
    /\ UNCHANGED beyondProc

ProcInit ==
    /\ proc \in {Process_new(config) : config \in ProcConfigs}
    /\ PoolOf(<<>>) /\ strategy = "performance"
    /\ S5Off /\ HttpOff /\ AccOff /\ LocksOff
    /\ ClockOff /\ AnomalyOff /\ MonitorOff /\ AnalyzerOff /\ ApiOff /\ RouterOff

ProcNext ==
    \/ LoadConfig \/ SpawnBackground \/ SpawnSocks5 \/ SpawnHttp \/ BindApi
    \/ Socks5Start \/ HttpStart \/ CtrlC \/ Select

SpecProc == ProcInit /\ [][ProcNext]_vars

\* C20: the process ends with a non-zero exit code when a protocol listener
\* failed to bind its address, and with exit code 0 only when the shutdown
\* signal ended it.
C20_ExitCodes ==
    proc.pc = "exited" =>
        /\ proc.bind_failed # {} => proc.exit_code # Some(0)
        /\ proc.exit_code = Some(0) => proc.cause = "ctrl_c"

(***************************************************************************)
(* ApiServer::handle_request on the node pool: the four routes that change *)
(* the pool.  A request is its method, the address written in the path     *)
(* after "/api/ips/" (None for POST /api/ips) and its JSON body (None      *)
(* where serde_json does not parse it).                                    *)
(***************************************************************************)
\* the addresses a client writes in the path
PathAddrs == {"a1", "a2", "xa1", "xa2"}

\* &request_line[addr_start + 10..] with " HTTP/1.1" trimmed: "/api/ips/" is
\* 9 bytes long, so the slice starts one byte into the address
address_of_path(addr) ==
    CASE addr = "a1" -> "1"
      [] addr = "a2" -> "2"
      [] addr = "xa1" -> "a1"
      [] addr = "xa2" -> "a2"

ApiRequest(method, addr, body) == [method |-> method, addr |-> addr, body |-> body]

ApiRequests ==
    {ApiRequest("POST", None, b) :
        b \in {None} \cup {Some(IPInfo(a, p)) : a \in Addrs, p \in Ports}}
    \cup {ApiRequest("PUT", Some(a), b) :
            a \in PathAddrs,
            b \in {None, Some([port |-> None, enabled |-> Some(FALSE)]),
                   Some([port |-> Some(1081), enabled |-> None])}}
    \cup {ApiRequest(m, Some(a), None) : m \in {"PATCH", "DELETE"}, a \in PathAddrs}

\* the pool as one value
PoolValue == [ip_pool |-> ip_pool, ip_stats |-> ip_stats, node_states |-> node_states]

\* the JSON value of the route and the pool it leaves
add_ip(request) ==
    IF request.body = None THEN [success |-> FALSE, pool |-> PoolValue]
    ELSE LET r == add_node(request.body[1])
         IN  [success |-> r.ret,
              pool |-> [ip_pool |-> r.ip_pool, ip_stats |-> r.ip_stats,
                        node_states |-> r.node_states]]

update_ip(request) ==
    IF request.body = None THEN [success |-> FALSE, pool |-> PoolValue]
    ELSE LET r == update_node(address_of_path(request.addr[1]), request.body[1])
         IN  [success |-> r.ret,
              pool |-> [ip_pool |-> r.ip_pool, ip_stats |-> ip_stats,
                        node_states |-> r.node_states]]

toggle_ip(request) ==
    LET r == toggle_node(address_of_path(request.addr[1]))
    IN  [success |-> r.ret # None,
         pool |-> [ip_pool |-> ip_pool, ip_stats |-> ip_stats,
                   node_states |-> r.node_states]]

delete_ip(request) ==
    LET r == remove_node(address_of_path(request.addr[1]))
    IN  [success |-> r.ret,
         pool |-> [ip_pool |-> r.ip_pool, ip_stats |-> r.ip_stats,
                   node_states |-> r.node_states]]

\* the response is written with the status line "HTTP/1.1 200 OK" whatever
\* the JSON value says
handle_request(request) ==
    LET response == CASE request.method = "POST" -> add_ip(request)
                      [] request.method = "PUT" -> update_ip(request)
                      [] request.method = "PATCH" -> toggle_ip(request)
                      [] OTHER -> delete_ip(request)
    IN  [status |-> 200, success |-> response.success, pool |-> response.pool]

HandleRequest ==
    \E request \in ApiRequests :
        LET r == handle_request(request)
        IN  /\ ip_pool' = r.pool.ip_pool
            /\ ip_stats' = r.pool.ip_stats
            /\ node_states' = r.pool.node_states
            /\ last_call' = Call(request.method, request.addr, r.success)
            /\ api' = [request |-> Some(request), before |-> PoolValue,
                       status |-> r.status, success |-> r.success]
    /\ UNCHANGED beyondApi

ApiInit ==
    /\ \E ips \in ConfigIps : PoolOf(ips)
    /\ strategy = "performance"
    /\ api = [request |-> None, before |-> None, status |-> 0, success |-> FALSE]
    /\ S5Off /\ HttpOff /\ AccOff /\ LocksOff
    /\ ClockOff /\ AnomalyOff /\ MonitorOff /\ AnalyzerOff /\ ProcOff /\ RouterOff

ApiNext == HandleRequest

SpecApi == ApiInit /\ [][ApiNext]_vars

\* C21: POST /api/ips for an address already in the pool answers 409 and
\* leaves the pool unchanged; PUT, PATCH and DELETE on /api/ips/{addr}
\* answer 404 when no node has the address {addr}, and otherwise 200 after
\* acting on the node whose address is {addr}.
C21_ApiStatusCodes ==
    api.request # None =>
        LET request == api.request[1]
            before == api.before
            known(a) == a \in PoolAddresses(before.ip_pool)
        IN  /\ (request.method = "POST" /\ request.body # None
                    /\ known(request.body[1].address)) =>
                    api.status = 409 /\ PoolValue = before
            /\ (request.method \in {"PUT", "PATCH", "DELETE"} /\ ~known(request.addr[1])) =>
                    api.status = 404 /\ PoolValue = before
            /\ (request.method = "DELETE" /\ known(request.addr[1])) =>
                    /\ api.status = 200
                    /\ request.addr[1] \notin PoolAddresses(ip_pool)
            /\ (request.method = "PATCH" /\ known(request.addr[1])) =>
                    /\ api.status = 200
                    /\ node_states[request.addr[1]].enabled
                            = ~before.node_states[request.addr[1]].enabled

(***************************************************************************)
(* The event history at its capacity: a detector that has been running for *)
(* long, with h events behind it, one every ALERT_COOLDOWN.                *)
(***************************************************************************)
MaxEvents == 199

PastEvents(h) ==
    [i \in 1..h |-> Event("LatencySpike", 0 - ALERT_COOLDOWN * (h + 1 - i), "Medium")]

HistoryInit ==
    /\ now = 0
    /\ \E h \in {0, MaxEvents, MAX_EVENT_HISTORY}, n \in {0, 5} :
        detector = [AnomalyDetector_new(AnomalyDetectionConfig(TRUE))
                        EXCEPT !.request_rates = [i \in 1..n |-> [ts |-> 0, rate |-> 10]],
                               !.latency_history = [i \in 1..n |-> [ts |-> 0, rate |-> 100]],
                               !.error_rates = [i \in 1..n |-> [ts |-> 0, rate |-> 1]],
                               !.event_history = PastEvents(h),
                               !.last_alert = IF h = 0 THEN @
                                    ELSE [@ EXCEPT !["LatencySpike"] = Some(0 - ALERT_COOLDOWN)]]
    /\ detect_calls = <<>>
    /\ PoolOf(<<>>) /\ strategy = "performance"
    /\ S5Off /\ HttpOff /\ AccOff /\ LocksOff
    /\ MonitorOff /\ AnalyzerOff /\ ProcOff /\ ApiOff /\ RouterOff

HistoryNext == Detect

SpecHistory == HistoryInit /\ [][HistoryNext]_vars

\* the most recent (up to MAX_EVENT_HISTORY) events of a log
MostRecent(log) ==
    IF Len(log) <= MAX_EVENT_HISTORY THEN log
    ELSE SubSeq(log, Len(log) - MAX_EVENT_HISTORY + 1, Len(log))

REQUEST_CAPACITY == 10000
MaxQueued == 9999

FifoInit ==
    /\ now = 10
    /\ analyzer = update_stats(
                    [TrafficAnalyzer_new(WINDOW_SIZE) EXCEPT
                        !.request_history = [i \in 1..MaxQueued |-> RequestInfo(10, 64, 100)],
                        !.records = MaxRecords - 2,
                        !.last = "record_request"], 10)
    /\ PoolOf(<<>>) /\ strategy = "performance"
    /\ S5Off /\ HttpOff /\ AccOff /\ LocksOff
    /\ AnomalyOff /\ MonitorOff /\ ProcOff /\ ApiOff /\ RouterOff

FifoNext == RecordRequest \/ RecordBytes

SpecFifo == FifoInit /\ [][FifoNext]_vars

\* C23: the request FIFO never holds more than 10 000 RequestInfo entries,
\* however many record_request calls fall inside one window.
C23_FifoCap == Len(analyzer.request_history) <= REQUEST_CAPACITY

\* C24: for a plain HTTP request exactly one request is forwarded per client
\* connection: after the transformed request has been written to the
\* upstream only upstream-to-client bytes are relayed, and no further client
\* bytes reach the upstream.
C24_OneRequestForwarded ==
    (http.pc # "off" /\ http.dial # None /\ http.dial[1].mode = "forward") =>
        http.relayed = <<>>

\* the length the request's ATYP requires (RFC 1928, section 4)
RequiredLength(buf) ==
    CASE B(buf, 3) = 1 -> 10
      [] B(buf, 3) = 3 -> IF Len(buf) < 5 THEN 5 ELSE 5 + B(buf, 4) + 2
      [] B(buf, 3) = 4 -> 22
      [] OTHER -> 4

BadVersion(buf) == Len(buf) >= 1 /\ B(buf, 0) # SOCKS5_VERSION
UnsupportedCmd(buf) == Len(buf) >= 4 /\ B(buf, 1) # 1
UnsupportedAtyp(buf) == Len(buf) >= 4 /\ B(buf, 3) \notin {1, 3, 4}
\* a read of no bytes is the client's close, not a request
ShortRead(buf) == buf # <<>> /\ (Len(buf) < 4 \/ Len(buf) < RequiredLength(buf))

FramingError(buf) ==
    BadVersion(buf) \/ UnsupportedCmd(buf) \/ UnsupportedAtyp(buf) \/ ShortRead(buf)

\* C25: in the request stage every framing error (a read shorter than the
\* ATYP requires, a bad version byte, an unsupported CMD, an unsupported
\* ATYP) has a negative reply frame sent to the client before the socket is
\* closed (where the socket still takes the write), REP 0x07 for the CMD and
\* 0x08 for the ATYP, and no forward dial is attempted.
C25_FramingErrorReplies ==
    (s5.pc = "done" /\ s5.request # None /\ FramingError(s5.request[1])) =>
        /\ s5.dial = None
        /\ ~s5.io_err =>
            /\ Len(ReplyFrames) = 1
            /\ ReplyFrames[1][2] # REP_SUCCESS
            /\ (~BadVersion(s5.request[1]) /\ UnsupportedCmd(s5.request[1])) =>
                    ReplyFrames[1][2] = REP_CMD_NOT_SUPPORTED
            /\ (~BadVersion(s5.request[1]) /\ ~UnsupportedCmd(s5.request[1])
                    /\ UnsupportedAtyp(s5.request[1])) =>
                    ReplyFrames[1][2] = REP_ATYP_NOT_SUPPORTED

(***************************************************************************)
(* Round robin, read off the pool: the k-th node probed from the current   *)
(* index, and the probes that find an available node.                      *)
(***************************************************************************)
Probed(k) == ip_pool[((current_index + k) % Len(ip_pool)) + 1]

Hits == {k \in 1..Len(ip_pool) : is_available(Probed(k))}

FirstHit == CHOOSE k \in Hits : \A j \in Hits : k <= j

RoundRobinTags == {s \in Strategies : s \notin {"random", "leastused", "performance"}}

\* C26 as stated: under RoundRobin select_ip probes at most len nodes from
\* (current_index + 1) mod len on, advances current_index on each probe and
\* returns the first probed node that is available; if every node is
\* unavailable it returns the node at the current index.
C26_RoundRobinCurrentIndex ==
    (strategy \in RoundRobinTags /\ ip_pool # <<>>) =>
        \A r \in select_ip :
            IF Hits = {}
            THEN /\ r.index = current_index % Len(ip_pool)
                 /\ r.ret = Some(ip_pool[r.index + 1])
            ELSE /\ r.index = (current_index + FirstHit) % Len(ip_pool)
                 /\ r.ret = Some(Probed(FirstHit))

\* C26, amended: ... if every node is unavailable it returns the first node
\* in insertion order, current_index having come round to where it was.
C26_RoundRobinFirstNode ==
    (strategy \in RoundRobinTags /\ ip_pool # <<>>) =>
        /\ \A r \in select_ip :
            IF Hits = {}
            THEN /\ r.index = current_index % Len(ip_pool)
                 /\ r.ret = Some(ip_pool[1])
            ELSE /\ r.index = (current_index + FirstHit) % Len(ip_pool)
                 /\ r.ret = Some(Probed(FirstHit))
        /\ (last_call.op = "select_ip" /\ last_call.ret # None
                /\ is_available(last_call.ret[1])) =>
                last_call.ret = Some(ip_pool[current_index + 1])

\* a call that skipped an unavailable node and returned the one after it
C26_Witness ==
    /\ last_call.op = "select_ip"
    /\ strategy = "roundrobin"
    /\ Len(ip_pool) = 2
    /\ ip_pool[1].address # ip_pool[2].address
    /\ current_index = 1
    /\ ~is_available(ip_pool[1])
    /\ is_available(ip_pool[2])
    /\ last_call.ret = Some(ip_pool[2])

\* success_rate = success_count / max(use_count, 1), two rates compared by
\* cross-multiplication
MaxOf(x, y) == IF x >= y THEN x ELSE y

\* node a is better than node b: a higher success rate, or the same rate and
\* a lower latency
BetterNode(a, b) ==
    LET sa == node_states[a.address]
        sb == node_states[b.address]
        na == sa.success_count * MaxOf(sb.use_count, 1)
        nb == sb.success_count * MaxOf(sa.use_count, 1)
    IN  \/ na > nb
        \/ na = nb /\ sa.latency < sb.latency

\* C27: under PerformanceBased select_ip returns an available node that no
\* available node is better than, in the order of higher success_rate first
\* and lower NodeState.latency on a tie, success_rate being
\* success_count / max(use_count, 1).
C27_BestByRateThenLatency ==
    (strategy = "performance" /\ healthy_ips # <<>>) =>
        \A r \in select_ip :
            /\ r.ret # None
            /\ is_available(r.ret[1])
            /\ \A i \in 1..Len(healthy_ips) : ~BetterNode(healthy_ips[i], r.ret[1])

\* C28: after record_bytes(in, out) returns, total_bytes_in and
\* total_bytes_out are the sums of the inbound and of the outbound byte
\* tuples inside the window, the pair just pushed included, whether or not
\* any request is recorded in the window.
C28_ByteTotalsAfterRecordBytes ==
    analyzer.last = "record_bytes" =>
        LET bytes == InWindow(analyzer.byte_history)
        IN  /\ analyzer.current_stats.total_bytes_in
                    = SumOf(SelectSeq(bytes, LAMBDA b : b.is_in), "bytes")
            /\ analyzer.current_stats.total_bytes_out
                    = SumOf(SelectSeq(bytes, LAMBDA b : ~b.is_in), "bytes")

\* C29: a detect call made while detection is enabled judges the current
\* request rate against the average of the samples that earlier calls
\* appended (those still inside the history window), and then appends the
\* current sample to each of the three series exactly once, whether an event
\* was emitted, suppressed by the cooldown, or not triggered.
C29_BaselineThenAppend ==
    [][detector.config.enabled =>
        LET call == detect_calls'[Len(detect_calls')]
            input == call.input
            Kept(q) == SelectSeq(q, LAMBDA x : x.ts >= now' - HISTORY_WINDOW)
            earlier == Kept(detector.request_rates)
            cooling == /\ detector.last_alert["TrafficSpike"] # None
                       /\ now' - detector.last_alert["TrafficSpike"][1] < ALERT_COOLDOWN
            spike == \E i \in 1..Len(call.events) :
                        call.events[i].anomaly_type = "TrafficSpike"
        IN  /\ spike <=>
                    /\ ~cooling
                    /\ Len(earlier) >= 5
                    /\ input.requests_per_second * Len(earlier)
                            > SumRates(earlier) * detector.config.spike_threshold
            /\ detector'.request_rates
                    = Append(earlier, [ts |-> now', rate |-> input.requests_per_second])
            /\ detector'.latency_history
                    = Append(Kept(detector.latency_history),
                             [ts |-> now', rate |-> input.avg_latency])
            /\ detector'.error_rates
                    = Append(Kept(detector.error_rates),
                             [ts |-> now', rate |-> input.error_rate])]_vars

\* a spike emitted against five earlier samples, then the same input
\* suppressed by the cooldown: both samples are in the three series
C29_Witness ==
    /\ detect_calls # "off" /\ Len(detect_calls) = 2
    /\ detector.config.enabled
    /\ detect_calls[1].input = SpikeInput /\ detect_calls[2].input = SpikeInput
    /\ Len(detect_calls[1].events) = 1 /\ detect_calls[2].events = <<>>
    /\ Len(detector.request_rates) = 7
    /\ Len(detector.latency_history) = 7
    /\ Len(detector.error_rates) = 7

RecordThreads == {"t1", "t2"}
SweepThread == "sweep"
Threads == RecordThreads \cup {SweepThread}

\* the time between one step that reads the clock and the next
SharedElapsed == {0, SESSION_TIMEOUT + 1}

\* a thread outside a call
Caller_idle ==
    [pc |-> "idle", session_id |-> None, action |-> None, seen |-> None,
     removed |-> None, at |-> 0, keys |-> {}]

\* the closure under active_sessions.get(session_id).map_or(false, ..)
should_finalize(m, session_id, action) ==
    /\ session_id \in DOMAIN m.active_sessions
    /\ LET actions == m.active_sessions[session_id]
       IN  \/ Len(actions) >= m.max_actions_per_session
           \/ /\ actions # <<>>
              /\ duration_since(action.timestamp, actions[Len(actions)].timestamp)
                    > m.session_timeout

\* active_sessions.remove(key): Some((key, actions)) or None
sessions_remove(m, key) ==
    IF key \in DOMAIN m.active_sessions
    THEN [ret |-> Some(m.active_sessions[key]),
          monitor |-> [m EXCEPT !.active_sessions = MapRemove(@, key)]]
    ELSE [ret |-> None, monitor |-> m]

\* active_sessions.entry(session_id).or_default().push(action)
sessions_push(m, session_id, action) ==
    [m EXCEPT !.active_sessions =
        MapInsert(@, session_id,
                  Append(IF session_id \in DOMAIN @ THEN @[session_id] ELSE <<>>, action))]

\* record_action up to the decision: the get and the closure
RecordCheck(t) ==
    /\ callers[t].pc = "idle"
    /\ \E session_id \in Sessions, dt \in SharedElapsed :
        LET action == BehaviorRecord(now + dt, "Connect", TRUE)
            finalize == should_finalize(monitor, session_id, action)
        IN  /\ now' = now + dt
            /\ callers' = [callers EXCEPT ![t] =
                    [@ EXCEPT !.pc = IF finalize THEN "remove" ELSE "push",
                              !.session_id = Some(session_id),
                              !.action = Some(action),
                              !.seen = IF session_id \in DOMAIN monitor.active_sessions
                                       THEN Some(monitor.active_sessions[session_id])
                                       ELSE None]]
    /\ UNCHANGED <<monitor, beyondMonitor>>

\* if let Some((_, actions)) = self.active_sessions.remove(session_id)
RecordRemove(t) ==
    /\ callers[t].pc = "remove"
    /\ LET r == sessions_remove(monitor, callers[t].session_id[1])
       IN  /\ monitor' = r.monitor
           /\ callers' = [callers EXCEPT ![t] =
                    [@ EXCEPT !.pc = IF r.ret = None THEN "push" ELSE "save",
                              !.removed = r.ret]]
    /\ UNCHANGED <<now, beyondMonitor>>

\* self.save_pattern(session_id, &actions)
RecordSave(t) ==
    /\ callers[t].pc = "save"
    /\ monitor' = [monitor EXCEPT !.patterns =
                        save_pattern(@, callers[t].session_id[1], callers[t].removed[1])]
    /\ callers' = [callers EXCEPT ![t].pc = "push"]
    /\ UNCHANGED <<now, beyondMonitor>>

RecordPush(t) ==
    /\ callers[t].pc = "push"
    /\ monitor' = sessions_push(monitor, callers[t].session_id[1], callers[t].action[1])
    /\ callers' = [callers EXCEPT ![t].pc = "done"]
    /\ UNCHANGED <<now, beyondMonitor>>

\* cleanup_stale_sessions: now and the stale keys collected
SweepCollect ==
    /\ callers[SweepThread].pc = "idle"
    /\ \E dt \in SharedElapsed :
        /\ now' = now + dt
        /\ callers' = [callers EXCEPT ![SweepThread] =
                [@ EXCEPT !.pc = "remove", !.at = now + dt,
                          !.keys = stale_keys(monitor, now + dt)]]
    /\ UNCHANGED <<monitor, beyondMonitor>>

\* for key in stale_keys: the remove, or the end of the loop
SweepRemove ==
    /\ callers[SweepThread].pc = "remove"
    /\ IF callers[SweepThread].keys = {}
       THEN /\ callers' = [callers EXCEPT ![SweepThread].pc = "cap"]
            /\ UNCHANGED monitor
       ELSE \E key \in callers[SweepThread].keys :
            LET r == sessions_remove(monitor, key)
            IN  /\ monitor' = r.monitor
                /\ callers' = [callers EXCEPT ![SweepThread] =
                        [@ EXCEPT !.pc = IF r.ret = None THEN "remove" ELSE "save",
                                  !.session_id = Some(key),
                                  !.removed = r.ret,
                                  !.keys = @ \ {key}]]
    /\ UNCHANGED <<now, beyondMonitor>>

SweepSave ==
    /\ callers[SweepThread].pc = "save"
    /\ monitor' = [monitor EXCEPT !.patterns =
                        save_pattern(@, callers[SweepThread].session_id[1],
                                     callers[SweepThread].removed[1])]
    /\ callers' = [callers EXCEPT ![SweepThread].pc = "remove"]
    /\ UNCHANGED <<now, beyondMonitor>>

\* the cap of the pattern store
SweepCap ==
    /\ callers[SweepThread].pc = "cap"
    /\ \E p \in capped_patterns(monitor.patterns) :
        monitor' = [monitor EXCEPT !.patterns = p]
    /\ callers' = [callers EXCEPT ![SweepThread].pc = "done"]
    /\ UNCHANGED <<now, beyondMonitor>>

RecordActionCheck == \E t \in RecordThreads : RecordCheck(t)
RecordActionRemove == \E t \in RecordThreads : RecordRemove(t)
RecordActionSave == \E t \in RecordThreads : RecordSave(t)
RecordActionPush == \E t \in RecordThreads : RecordPush(t)

\* session s1 holds n records made at time 0
SharedMonitorInit ==
    /\ now = 0
    /\ \E n \in {1, MaxPreloaded, MAX_ACTIONS_PER_SESSION} :
        monitor = [BehaviorMonitor_new(SESSION_TIMEOUT) EXCEPT
                        !.active_sessions =
                            [k \in {"s1"} |->
                                [i \in 1..n |-> BehaviorRecord(0, "Connect", TRUE)]]]
    /\ callers = [t \in Threads |-> Caller_idle]
    /\ PoolOf(<<>>) /\ strategy = "performance"
    /\ S5Off /\ HttpOff /\ AccOff /\ LocksOff
    /\ AnomalyOff /\ AnalyzerOff /\ ProcOff /\ ApiOff /\ RouterOff

SharedMonitorNext ==
    \/ RecordActionCheck \/ RecordActionRemove \/ RecordActionSave \/ RecordActionPush
    \/ SweepCollect \/ SweepRemove \/ SweepSave \/ SweepCap

SpecSharedMonitor == SharedMonitorInit /\ [][SharedMonitorNext]_vars

\* C31: under concurrent record_action calls for one session id an active
\* session's list never exceeds 1000 records, and the pattern saved by the
\* finalization that the count of 1000 triggers is built from those 1000
\* records, not from the fresh list a concurrent call has started.
C31_CappedAndFinalizedOnce ==
    /\ \A k \in DOMAIN monitor.active_sessions :
            Len(monitor.active_sessions[k]) <= MAX_ACTIONS_PER_SESSION
    /\ \A t \in RecordThreads :
            (/\ callers[t].pc = "save"
             /\ Len(callers[t].seen[1]) >= MAX_ACTIONS_PER_SESSION) =>
                Len(callers[t].removed[1]) = MAX_ACTIONS_PER_SESSION

\* ======================================================================
\* SmartRouter (smart_router/mod.rs)
\* ======================================================================
\* Durations are whole milliseconds.  Reliability is the ratio
\* successful_requests / total_requests, compared with the configured
\* minimum 0.8 = 4/5 by cross-multiplication.
MaxTargets == 3
MaxRouterCalls == 4
DEFAULT_AVG_LATENCY_MS == 100
MAX_LATENCY_THRESHOLD_MS == 1000
MIN_RELIABILITY_NUM == 4
MIN_RELIABILITY_DEN == 5
TargetIps == {"x", "y", "z"}
RouterLatencies == {50, 2000}
LoadBalancings == {"roundrobin", "leastconnections", "fastest"}

RoutingConfig(load_balancing) ==
    [max_latency_threshold_ms |-> MAX_LATENCY_THRESHOLD_MS,
     min_reliability_num |-> MIN_RELIABILITY_NUM,
     min_reliability_den |-> MIN_RELIABILITY_DEN,
     load_balancing |-> load_balancing]

TargetStats_default ==
    [total_requests |-> 0, successful_requests |-> 0,
     avg_latency |-> DEFAULT_AVG_LATENCY_MS, current_connections |-> 0]

SmartRouter_new(config) ==
    [config |-> config, targets |-> <<>>, current_index |-> 0,
     calls |-> 0, last |-> [op |-> "new"]]

add_target(r, ip, port) ==
    IF \E i \in 1..Len(r.targets) : r.targets[i].ip = ip
    THEN r
    ELSE [r EXCEPT !.targets =
              Append(@, [ip |-> ip, port |-> port, stats |-> TargetStats_default])]

\* RouteTarget built from the live statistics; reliability is kept as the
\* pair (rel_num, rel_den), 1/1 while the target has no requests.
snapshot(entry) ==
    [ip |-> entry.ip, port |-> entry.port,
     latency |-> entry.stats.avg_latency,
     rel_num |-> IF entry.stats.total_requests > 0
                 THEN entry.stats.successful_requests ELSE 1,
     rel_den |-> IF entry.stats.total_requests > 0
                 THEN entry.stats.total_requests ELSE 1,
     load |-> entry.stats.current_connections]

passes_filter(config, t) ==
    /\ t.latency < config.max_latency_threshold_ms
    /\ t.rel_num * config.min_reliability_den >= t.rel_den * config.min_reliability_num

\* The indices (1-based) of the targets that pass the filter, ascending.
available_of(r) ==
    SelectSeq([i \in 1..Len(r.targets) |-> i],
              LAMBDA i : passes_filter(r.config, snapshot(r.targets[i])))

InSeq(x, seq) == \E k \in 1..Len(seq) : seq[k] = x

\* current_index is 0-based in the code; the result pairs the 1-based index
\* chosen with the current_index left behind.
RECURSIVE rr_route(_, _, _, _)
rr_route(len, current, available, left) ==
    IF left = 0
    THEN [idx |-> available[1], current_index |-> current]
    ELSE LET next == (current + 1) % len
         IN IF InSeq(next + 1, available)
            THEN [idx |-> next + 1, current_index |-> next]
            ELSE rr_route(len, next, available, left - 1)

round_robin_select(r, available) ==
    rr_route(Len(r.targets), r.current_index, available, Len(r.targets))

\* Iterator::min_by returns the first of several equal minima.
least_connections_select(r, available) ==
    LET load(i) == snapshot(r.targets[i]).load
        k == CHOOSE k \in 1..Len(available) :
                 /\ \A j \in 1..Len(available) : load(available[k]) <= load(available[j])
                 /\ \A j \in 1..(k - 1) : load(available[j]) > load(available[k])
    IN [idx |-> available[k], current_index |-> r.current_index]

fastest_response_select(r, available) ==
    LET lat(i) == snapshot(r.targets[i]).latency
        k == CHOOSE k \in 1..Len(available) :
                 /\ \A j \in 1..Len(available) : lat(available[k]) <= lat(available[j])
                 /\ \A j \in 1..(k - 1) : lat(available[j]) > lat(available[k])
    IN [idx |-> available[k], current_index |-> r.current_index]

RoutingDecision(selected_target, route_type, estimated_latency, fallback_targets) ==
    [selected_target |-> selected_target, route_type |-> route_type,
     estimated_latency |-> estimated_latency, fallback_targets |-> fallback_targets]

\* A select_route whose fallback gives up instead of taking the first target.
select_route_direct_fallback(r) ==
    LET available == available_of(r)
    IN IF r.targets = <<>> \/ available = <<>>
       THEN [decision |-> RoutingDecision(None, "Direct", "MAX", <<>>),
             current_index |-> r.current_index]
       ELSE LET sel == fastest_response_select(r, available)
            IN [decision |->
                    RoutingDecision(Some(snapshot(r.targets[sel.idx])), "Proxy",
                                    snapshot(r.targets[sel.idx]).latency, <<>>),
                current_index |-> sel.current_index]

select_route(r) ==
    IF r.targets = <<>>
    THEN [decision |-> RoutingDecision(None, "Direct", "MAX", <<>>),
          current_index |-> r.current_index]
    ELSE LET available == available_of(r)
         IN IF available = <<>>
            THEN LET best == snapshot(r.targets[1])
                 IN [decision |-> RoutingDecision(Some(best), "Proxy", best.latency, <<>>),
                     current_index |-> r.current_index]
            ELSE LET sel == CASE r.config.load_balancing = "roundrobin" ->
                                     round_robin_select(r, available)
                              [] r.config.load_balancing = "leastconnections" ->
                                     least_connections_select(r, available)
                              [] OTHER -> fastest_response_select(r, available)
                     selected == snapshot(r.targets[sel.idx])
                     others == SelectSeq(available, LAMBDA i : i # sel.idx)
                 IN [decision |->
                         RoutingDecision(Some(selected), "Proxy", selected.latency,
                                         [k \in 1..Len(others) |->
                                              snapshot(r.targets[others[k]])]),
                     current_index |-> sel.current_index]

\* The running average is computed in f64 seconds by the code; here it is
\* the integer quotient in milliseconds.
router_record_result(r, ip, success, latency) ==
    IF ~\E i \in 1..Len(r.targets) : r.targets[i].ip = ip
    THEN r
    ELSE LET i == CHOOSE i \in 1..Len(r.targets) : r.targets[i].ip = ip
             st == r.targets[i].stats
             n == st.total_requests + 1
         IN [r EXCEPT !.targets[i].stats =
                [st EXCEPT !.total_requests = n,
                           !.avg_latency = (st.avg_latency * (n - 1) + latency) \div n,
                           !.successful_requests = IF success THEN @ + 1 ELSE @]]

AddTarget ==
    /\ Len(router.targets) < MaxTargets
    /\ \E ip \in TargetIps :
          router' = [add_target(router, ip, 1080) EXCEPT
                         !.last = [op |-> "add_target", ip |-> ip]]
    /\ UNCHANGED beyondRouter

RouterRecordResult ==
    /\ router.calls < MaxRouterCalls
    /\ \E ip \in TargetIps, success \in BOOLEAN, latency \in RouterLatencies :
          router' = [router_record_result(router, ip, success, latency) EXCEPT
                         !.calls = @ + 1,
                         !.last = [op |-> "record_result", ip |-> ip]]
    /\ UNCHANGED beyondRouter

SelectRoute ==
    /\ router.calls < MaxRouterCalls
    /\ LET res == select_route(router)
       IN router' = [router EXCEPT
                         !.current_index = res.current_index,
                         !.calls = @ + 1,
                         !.last = [op |-> "select_route", decision |-> res.decision,
                                   targets |-> router.targets]]
    /\ UNCHANGED beyondRouter

RouterInit ==
    /\ \E lb \in LoadBalancings : router = SmartRouter_new(RoutingConfig(lb))
    /\ PoolOf(<<>>) /\ strategy = "roundrobin"
    /\ S5Off /\ HttpOff /\ AccOff /\ LocksOff
    /\ ClockOff /\ AnomalyOff /\ MonitorOff /\ AnalyzerOff /\ ProcOff /\ ApiOff

RouterNext == AddTarget \/ RouterRecordResult \/ SelectRoute

SpecRouter == RouterInit /\ [][RouterNext]_vars

\* a target of the router passes the availability filter: average latency
\* below the threshold and reliability at least the configured minimum
TargetPasses(entry) ==
    /\ entry.stats.avg_latency < MAX_LATENCY_THRESHOLD_MS
    /\ \/ entry.stats.total_requests = 0
       \/ entry.stats.successful_requests * MIN_RELIABILITY_DEN
              >= entry.stats.total_requests * MIN_RELIABILITY_NUM

\* C32: select_route answers selected_target = None with route type Direct
\* exactly when the router has no targets; with at least one target it
\* answers one of the targets with route type Proxy; and when no target
\* passes the availability filter it answers the first target in insertion
\* order with an empty fallback list.
C32_SelectRouteFallback ==
    router.last.op = "select_route" =>
        LET d == router.last.decision
            targets == router.last.targets
        IN /\ (d.selected_target = None) <=> (targets = <<>>)
           /\ (d.route_type = "Direct") <=> (targets = <<>>)
           /\ targets # <<>> =>
                 /\ d.route_type = "Proxy"
                 /\ \E i \in 1..Len(targets) : d.selected_target[1].ip = targets[i].ip
           /\ (targets # <<>> /\ \A i \in 1..Len(targets) : ~TargetPasses(targets[i])) =>
                 /\ d.selected_target[1].ip = targets[1].ip
                 /\ d.fallback_targets = <<>>

\* select_route was called with two or more targets none of which passes the
\* filter, and answered the first of them.
C32_Witness ==
    /\ router.last.op = "select_route"
    /\ Len(router.last.targets) >= 2
    /\ \A i \in 1..Len(router.last.targets) : ~TargetPasses(router.last.targets[i])
    /\ router.last.decision.selected_target # None
    /\ router.last.decision.selected_target[1].ip = router.last.targets[1].ip
    /\ router.last.decision.route_type = "Proxy"

\* ======================================================================
\* Tunnel establishment and teardown (protocol/socks5.rs, protocol/http.rs)
\* ======================================================================
SuccessFrame == socks5_reply(REP_SUCCESS)

\* the record_bytes calls a task made
RecordBytesCalls(t) == SelectSeq(t.log, LAMBDA m : m.to = "record_bytes")

C34_TunnelBytesRecorded ==
    /\ (s5.pc = "done" /\ InSeq(SuccessFrame, s5.sent)) =>
          Len(RecordBytesCalls(s5)) = 1
    /\ (http.pc = "done" /\ http.dial # None /\ http.dial[1].mode = "CONNECT"
            /\ InSeq("200", http.sent)) =>
          Len(RecordBytesCalls(http)) = 1

\* C35: a dial through an upstream node always ends: the task reaches its
\* end, having written a failure frame unless the dial succeeded or the
\* client socket failed.
C35_UpstreamDialTerminates ==
    (s5.pc = "dial" /\ s5.dial[1].upstream # None) ~> (s5.pc = "done")

\* C36: with a non-empty pool, an HTTP CONNECT task that has written its
\* 200 has before that written the requested host:port to the upstream node
\* it dialled (forwarded: the task wrote a request to the dialled
\* connection), so that the node can reach the requested origin.
C36_ConnectConveysTarget ==
    (http.dial # None /\ http.dial[1].mode = "CONNECT" /\ get_proxy_endpoint # None
        /\ InSeq("200", http.sent)) =>
        http.forwarded

\* C37: under RoundRobin, whatever add_node, remove_node and select_ip calls
\* came before, every index select_round_robin uses on a non-empty pool is
\* smaller than the pool length (a current_index that a removal left at or
\* beyond the length is reduced modulo the length before it is used), the
\* index it leaves behind is too, and select_ip returns a node of the pool.
C37_RoundRobinIndexInRange ==
    (strategy \in RoundRobinTags /\ ip_pool # <<>>) =>
        LET probes == rr_indices(Len(ip_pool), current_index)
        IN  /\ probes # <<>>
            /\ \A i \in 1..Len(probes) : probes[i] \in 0..(Len(ip_pool) - 1)
            /\ \A r \in select_ip :
                  /\ r.index = probes[Len(probes)]
                  /\ r.ret # None
                  /\ \E i \in 1..Len(ip_pool) : r.ret[1] = ip_pool[i]

\* a removal has left current_index at or beyond the length of a pool that
\* is not empty
C37_Witness ==
    /\ strategy \in RoundRobinTags
    /\ last_call.op = "remove_node"
    /\ ip_pool # <<>>
    /\ current_index >= Len(ip_pool)

\* the addresses a health probe may report on: those of its snapshot, in
\* the pool or removed since, and one that never was in the pool
ProbedAddresses == Addrs \cup {"nonexistent.ip"}

C40_SweepSparesFreshSessions ==
    callers[SweepThread].pc = "save" =>
        LET removed == callers[SweepThread].removed[1]
        IN  removed # <<>> =>
                duration_since(callers[SweepThread].at,
                               removed[Len(removed)].timestamp) > SESSION_TIMEOUT
====
